---- MODULE Spec2Model ----
(***************************************************************************)
(* Model of the classification engine (src/classifier.py), of the usage    *)
(* ledger (src/usage_tracker.py), of the summary aggregator, of the        *)
(* taxonomy loader and of the dispatcher (main.py).                        *)
(*                                                                         *)
(* The LLM is an external collaborator: every call draws its response      *)
(* from a finite set of behaviours (exception, missing content, missing    *)
(* usage record, plain / padded / fenced text, JSON of the expected and of *)
(* unexpected shapes).  Text is a sequence of tokens, so that strip(),     *)
(* the removal of code fences and json.loads() are computed as the code    *)
(* computes them.  The prompt text and the timestamps and durations of     *)
(* single calls are left out: no branch of the code reads them.  The       *)
(* clock of the ledger is a counter that every reading advances.  The      *)
(* agent configuration is taken to define both prompt templates.           *)
(*                                                                         *)
(* Specifications: Spec (a classification run), SpecSummary                *)
(* (generate_summary), SpecLedger (a ledger over a log file in any state), *)
(* SpecTaxonomy (load_taxonomy), SpecMain (the dispatcher), SpecPhase4     *)
(* (run_phase4 from its entry to its end), SpecFleet (the trackers of two  *)
(* phase runs over one log file).                                          *)
(***************************************************************************)
EXTENDS Integers, Sequences, FiniteSets, TLC

VARIABLES
    complaints,       \* the list passed to classify_all
    use_batch,        \* the flag passed to classify_all
    taxonomy,         \* self.taxonomy (None until classify_all sets it)
    pc,               \* position: ready, batch, single, done; summary, summarized
    i,                \* number of complaints already consumed by the loop
    results,          \* the local list `results` of the running loop
    returned,         \* the list classify_all returned (None before)
    tracker,          \* self.tracker is not None
    current_session,  \* tracker.current_session (None or a session)
    requests,         \* history: the LLM calls issued so far, with the responses
    faults,           \* number of responses that left the baseline
    summary_in,       \* the list passed to generate_summary
    summary,          \* what generate_summary returned (None before, or raised)
    sessions,         \* tracker.sessions, the history (a JSON value)
    log_file,         \* the usage log file on durable storage
    shared,           \* tracker.sessions[-1] is tracker.current_session
    op,               \* the last operation called
    ret,              \* what the last operation returned (None: nothing)
    raised,           \* the last operation raised to its caller
    now,              \* the clock read by time.time() and datetime.now()
    replaced,         \* history: start_datetime of the sessions replaced while open
    taxonomy_file,    \* the file load_taxonomy reads
    error,            \* the exception load_taxonomy raised (None: none)
    argv,             \* sys.argv[1:], the command line of main.py
    plan,             \* the calls main has still to make
    events,           \* history: phases started and ended, confirmations read
    complaints_file,  \* the file load_complaints reads
    results_file,     \* the file run_phase4 writes its results to
    api_key,          \* config.OPENAI_API_KEY is set
    frame,            \* the local variables of run_phase4
    ledgers,          \* the trackers of the phase runs over one log file
    written           \* history: the sessions end_session wrote to the file

\* the state of the usage ledger and of its caller
ledgerVars == <<sessions, log_file, shared, op, ret, raised, now, replaced>>

\* the state of the taxonomy loader and of the dispatcher
frontVars == <<taxonomy_file, error, argv, plan, events>>

\* the files and the configuration of a phase-4 run
phaseVars == <<complaints_file, results_file, api_key, frame>>

\* the trackers of several phase runs, and what they wrote
fleetVars == <<ledgers, written>>

vars == <<complaints, use_batch, taxonomy, pc, i, results, returned, tracker,
          current_session, requests, faults, summary_in, summary, ledgerVars,
          frontVars, phaseVars, fleetVars>>

-----------------------------------------------------------------------------
(* Bounds of the model and constants of the program *)

MaxComplaints == 21

MaxFaults == 1

MaxAssignments == 4

SmallRun == 3

BatchThreshold == 20

BatchSize == 10

MaxSessions == 2

MaxCalls == 1

MaxCategories == 3

-----------------------------------------------------------------------------
(* Optional values: Python's None is the empty sequence *)

None == <<>>

Some(x) == <<x>>

Get(o) == o[1]

\* the end of the slice complaints[i : i + batch_size]
Min(a, b) == IF a < b THEN a ELSE b

-----------------------------------------------------------------------------
(* Text.  A text is a sequence of tokens: whitespace, the fence "```", the  *)
(* fence "```json", a word (any run of other characters that is not JSON)   *)
(* and a JSON document, which carries its value.                            *)

Ws == [t |-> "ws"]

Fence == [t |-> "fence"]

FenceJson == [t |-> "fencejson"]

Word(s) == [t |-> "word", s |-> s]

Json(v) == [t |-> "json", v |-> v]

RECURSIVE lstrip(_)
lstrip(text) ==
    IF text # <<>> /\ Head(text) = Ws THEN lstrip(Tail(text)) ELSE text

RECURSIVE rstrip(_)
rstrip(text) ==
    IF text # <<>> /\ text[Len(text)] = Ws
    THEN rstrip(SubSeq(text, 1, Len(text) - 1))
    ELSE text

\* str.strip()
strip(text) == rstrip(lstrip(text))

\* result_text.startswith("```json")
StartsWithFenceJson(text) == text # <<>> /\ Head(text) = FenceJson

\* result_text.startswith("```"): "```json" starts with "```" too
StartsWithFence(text) == text # <<>> /\ Head(text) \in {Fence, FenceJson}

\* result_text.endswith("```")
EndsWithFence(text) == text # <<>> /\ text[Len(text)] = Fence

\* result_text[3:] of a text that starts with "```"
DropFence(text) ==
    IF Head(text) = FenceJson THEN <<Word("json")>> \o Tail(text)
    ELSE Tail(text)

\* classify_batch: strip, remove the markdown code fences, strip
RemoveFences(content) ==
    LET t0 == strip(content)
        t1 == IF StartsWithFenceJson(t0) THEN Tail(t0) ELSE t0
        t2 == IF StartsWithFence(t1) THEN DropFence(t1) ELSE t1
        t3 == IF EndsWithFence(t2) THEN SubSeq(t2, 1, Len(t2) - 1) ELSE t2
    IN  strip(t3)

\* json.loads: the value of the document, None when it raises
json_loads(text) ==
    IF Len(strip(text)) = 1 /\ strip(text)[1].t = "json"
    THEN Some(strip(text)[1].v)
    ELSE None

-----------------------------------------------------------------------------
(* Taxonomy and complaints *)

Taxonomy == << [category_name |-> "Motor"], [category_name |-> "Atendimento"] >>

\* [cat["category_name"] for cat in taxonomy]
CategoryNames(tax) == {tax[k].category_name : k \in 1..Len(tax)}

Complaint(id) == [complaint_id |-> id]

ComplaintList(n) == [k \in 1..n |-> Complaint(k)]

Ids(batch) == [k \in 1..Len(batch) |-> batch[k].complaint_id]

Assignment(id, cat) == [complaint_id |-> id, assigned_category |-> cat]

\* the category a well-behaved LLM gives complaint id
BaselineCategory(id) == Taxonomy[(id % Len(Taxonomy)) + 1].category_name

OtherCategory(id) == Taxonomy[((id + 1) % Len(Taxonomy)) + 1].category_name

-----------------------------------------------------------------------------
(* Usage ledger: the session the engine reports to *)

\* OpenAIUsageTracker.start_session
start_session(phase, model, clock) ==
    Some([phase |-> phase, model |-> model,
          start_time |-> clock, start_datetime |-> clock, calls |-> <<>>,
          total_input_tokens |-> 0, total_output_tokens |-> 0,
          total_tokens |-> 0, duration_seconds |-> 0,
          estimated_cost_usd |-> 0])

\* mutant: a call logged while no session is open opens a session for it
log_call_OpensSession(session, input_tokens, output_tokens) ==
    LET s == IF session = None
             THEN [phase |-> "unknown", model |-> "unknown",
                   start_time |-> 0, start_datetime |-> 0, calls |-> <<>>,
                   total_input_tokens |-> 0, total_output_tokens |-> 0,
                   total_tokens |-> 0, duration_seconds |-> 0,
                   estimated_cost_usd |-> 0]
             ELSE Get(session)
        call_data == [input_tokens |-> input_tokens,
                      output_tokens |-> output_tokens,
                      total_tokens |-> input_tokens + output_tokens]
    IN  Some([s EXCEPT
                !.calls = Append(@, call_data),
                !.total_input_tokens = @ + input_tokens,
                !.total_output_tokens = @ + output_tokens,
                !.total_tokens = @ + (input_tokens + output_tokens)])

\* mutant: the running total counts the input tokens only
log_call_TotalOfInput(session, input_tokens, output_tokens) ==
    IF session = None THEN session
    ELSE LET s == Get(session)
             call_data == [input_tokens |-> input_tokens,
                           output_tokens |-> output_tokens,
                           total_tokens |-> input_tokens + output_tokens]
         IN  Some([s EXCEPT
                     !.calls = Append(@, call_data),
                     !.total_input_tokens = @ + input_tokens,
                     !.total_output_tokens = @ + output_tokens,
                     !.total_tokens = @ + input_tokens])

\* OpenAIUsageTracker.log_call: the new value of current_session
log_call(session, input_tokens, output_tokens) ==
    IF session = None THEN session
    ELSE LET s == Get(session)
             call_data == [input_tokens |-> input_tokens,
                           output_tokens |-> output_tokens,
                           total_tokens |-> input_tokens + output_tokens]
         IN  Some([s EXCEPT
                     !.calls = Append(@, call_data),
                     !.total_input_tokens = @ + input_tokens,
                     !.total_output_tokens = @ + output_tokens,
                     !.total_tokens = @ + (input_tokens + output_tokens)])

-----------------------------------------------------------------------------
(* Single mode: classify_complaint *)

\* category not in valid_categories, for the stripped response text
MatchesCategory(category, tax) ==
    \E name \in CategoryNames(tax) : category = <<Word(name)>>

\* mutant: the code fences are removed as in batch mode
SingleCategory_Fences(content, tax) ==
    LET category == RemoveFences(content)
    IN  IF ~MatchesCategory(category, tax) THEN "OTHER" ELSE category[1].s

\* the body of the try block once the call has returned
SingleCategory(content, tax) ==
    LET category == strip(content)
    IN  IF ~MatchesCategory(category, tax) THEN "OTHER" ELSE category[1].s

\* mutant: a response without text is treated as an unmatched category
classify_complaint_EmptyAsOther(complaint, tax, resp) ==
    IF resp.raised THEN "ERROR"
    ELSE IF resp.content = None THEN "OTHER"
    ELSE SingleCategory(Get(resp.content), tax)

\* classify_complaint: the category it returns for the LLM's response
classify_complaint(complaint, tax, resp) ==
    IF resp.raised THEN "ERROR"
    ELSE IF resp.content = None THEN "ERROR"
    ELSE SingleCategory(Get(resp.content), tax)

-----------------------------------------------------------------------------
(* Batch mode: one iteration of the loop of classify_batch *)

\* valid_categories of classify_batch
ValidCategories(tax) == CategoryNames(tax) \cup {"OTHER"}

\* mutant: an invalid category is warned about and left as it is
ValidateEntry_NoRewrite(result, valid) ==
    IF "assigned_category" \notin DOMAIN result THEN None
    ELSE IF result.assigned_category \notin valid
         THEN IF "complaint_id" \notin DOMAIN result THEN None
              ELSE Some(result)
         ELSE Some(result)

\* the body of the validation loop for one entry; None when it raises
ValidateEntry(result, valid) ==
    IF "assigned_category" \notin DOMAIN result THEN None
    ELSE IF result.assigned_category \notin valid
         THEN IF "complaint_id" \notin DOMAIN result THEN None
              ELSE Some([result EXCEPT !.assigned_category = "OTHER"])
         ELSE Some(result)

\* the validation loop over batch_results; None when an entry raises (the
\* entries rewritten before the raise are dropped with the list)
ValidateResults(batch_results, valid) ==
    IF \E k \in 1..Len(batch_results) :
           ValidateEntry(batch_results[k], valid) = None
    THEN None
    ELSE Some([k \in 1..Len(batch_results) |->
                  Get(ValidateEntry(batch_results[k], valid))])

\* from response.choices[0].message.content to the validated batch_results;
\* None when any step raises
ParseBatch(content, tax) ==
    IF content = None THEN None
    ELSE LET parsed == json_loads(RemoveFences(Get(content)))
         IN  IF parsed = None THEN None
             ELSE IF ~Get(parsed).list THEN None
             ELSE ValidateResults(Get(parsed).items, ValidCategories(tax))

\* mutant: the fallback keys every ERROR to the first complaint of the batch
ErrorAssignments_FirstKey(batch) ==
    [k \in 1..Len(batch) |-> Assignment(batch[1].complaint_id, "ERROR")]

\* the except branch: every complaint of the batch is marked ERROR
ErrorAssignments(batch) ==
    [k \in 1..Len(batch) |-> Assignment(batch[k].complaint_id, "ERROR")]

\* does the usage report of the try block raise
ReportRaises(trk, resp) == trk /\ resp.usage = None

\* the session after the usage report of the try block
ReportUsage(trk, session, resp) ==
    IF trk
    THEN log_call(session, Get(resp.usage).prompt_tokens,
                  Get(resp.usage).completion_tokens)
    ELSE session

\* one iteration: what is appended to results, and the session afterwards
classify_chunk(batch, tax, trk, session, resp) ==
    IF resp.raised
    THEN [out |-> ErrorAssignments(batch), session |-> session]
    ELSE IF ReportRaises(trk, resp)
    THEN [out |-> ErrorAssignments(batch), session |-> session]
    ELSE LET parsed == ParseBatch(resp.content, tax)
         IN  [out |-> IF parsed = None THEN ErrorAssignments(batch)
                      ELSE Get(parsed),
              session |-> ReportUsage(trk, session, resp)]

\* mutant: the slice ends one complaint late, into the next chunk
ChunkAt_OneMore(list, start, batch_size) ==
    SubSeq(list, start + 1, Min(start + batch_size + 1, Len(list)))

\* batch = complaints[i : i + batch_size]
ChunkAt(list, start, batch_size) ==
    SubSeq(list, start + 1, Min(start + batch_size, Len(list)))

\* mutant: the batch path is taken from the threshold on
UseBatchMode_AtThreshold(flag, n) == flag /\ n >= BatchThreshold

\* classify_all: is the batch path taken
UseBatchMode(flag, n) == flag /\ n > BatchThreshold

-----------------------------------------------------------------------------
(* The LLM: the responses a call may get *)

JsonList(items) == [list |-> TRUE, items |-> items]

JsonNumber == [list |-> FALSE]

\* size of a text: one per token, plus one per entry of a JSON list
RECURSIVE TextSize(_)
TextSize(text) ==
    IF text = <<>> THEN 0
    ELSE (IF Head(text).t = "json" /\ Head(text).v.list
          THEN 1 + Len(Head(text).v.items) ELSE 1)
         + TextSize(Tail(text))

PromptTokens(batch) == Len(Taxonomy) + Len(batch)

Usage(batch, content) ==
    Some([prompt_tokens |-> PromptTokens(batch),
          completion_tokens |-> IF content = None THEN 0
                                ELSE TextSize(Get(content))])

Raised == [raised |-> TRUE, content |-> None, usage |-> None]

Returned(content, usage) ==
    [raised |-> FALSE, content |-> content, usage |-> usage]

\* the ways a payload is wrapped in the response text
Wrappings(payload) ==
    { <<payload>>,
      <<Ws, payload, Ws>>,
      <<FenceJson, Ws, payload, Ws, Fence>>,
      <<Fence, Ws, payload, Ws, Fence, Ws>> }

\* the answer the prompt asks for: every complaint once, in order
GoodList(batch) ==
    [k \in 1..Len(batch) |->
        Assignment(batch[k].complaint_id,
                   BaselineCategory(batch[k].complaint_id))]

Without(seq, k) == SubSeq(seq, 1, k - 1) \o SubSeq(seq, k + 1, Len(seq))

Reverse(seq) == [k \in 1..Len(seq) |-> seq[Len(seq) + 1 - k]]

\* an id no complaint of the input carries
UnknownId == MaxComplaints + 1000

\* entry k of the good list replaced
BadEntries(batch, k) ==
    LET id == batch[k].complaint_id
    IN  { Assignment(id, OtherCategory(id)),
          Assignment(id, "OTHER"),
          Assignment(id, "ERROR"),
          Assignment(id, "Inexistente"),
          Assignment(UnknownId, BaselineCategory(id)),
          [complaint_id |-> id],
          [assigned_category |-> BaselineCategory(id)],
          [assigned_category |-> "Inexistente"],
          [json_number |-> 7] }

\* JSON arrays that are not the good list
BadLists(batch) ==
    LET good == GoodList(batch)
    IN  ( { <<>>, Reverse(good) }
          \cup UNION { { [good EXCEPT ![k] = e] : e \in BadEntries(batch, k) }
                       \cup { Without(good, k), Append(good, good[k]),
                              Append(good, Assignment(UnknownId, "Motor")) }
                       : k \in {1, Len(batch)} } )
        \ {good}

\* the good list in every wrapping; the other payloads plain or fenced
BatchTexts(batch) ==
    Wrappings(Json(JsonList(GoodList(batch))))
    \cup { <<Json(JsonList(l))>> : l \in BadLists(batch) }
    \cup { <<FenceJson, Ws, Json(JsonList(Without(GoodList(batch), 1))), Ws, Fence>>,
           <<Json(JsonNumber)>>, <<Word("Desculpe")>>,
           <<FenceJson, Ws, Json(JsonList(GoodList(batch)))>>,
           <<FenceJson, FenceJson, Json(JsonList(GoodList(batch))), Fence>> }

BatchContents(batch) == {None} \cup { Some(text) : text \in BatchTexts(batch) }

BatchBaseline(batch) ==
    LET content == Some(<<Json(JsonList(GoodList(batch)))>>)
    IN  Returned(content, Usage(batch, content))

BatchResponses(batch) ==
    {Raised} \cup
    UNION { { Returned(c, None), Returned(c, Usage(batch, c)) }
            : c \in BatchContents(batch) }

\* the category name plain, padded and fenced, and a name of no category
SingleTexts(complaint) ==
    LET name == Word(BaselineCategory(complaint.complaint_id))
    IN  { <<name>>, <<Ws, name, Ws>>, <<Fence, Ws, name, Ws, Fence>>,
          <<Word("Inexistente")>> }

\* response.usage is never read in single mode: it is always present here
SingleContents(complaint) ==
    {None} \cup { Some(text) : text \in SingleTexts(complaint) }

SingleBaseline(complaint) ==
    LET content == Some(<<Word(BaselineCategory(complaint.complaint_id))>>)
    IN  Returned(content, Usage(<<complaint>>, content))

SingleResponses(complaint) ==
    {Raised} \cup
    { Returned(c, Usage(<<complaint>>, c)) : c \in SingleContents(complaint) }

-----------------------------------------------------------------------------
(* Usage ledger: the history, the log file and the cost of a session *)

\* a JSON object with the given members
JsonObject(fields) == [list |-> FALSE, object |-> TRUE, fields |-> fields]

\* isinstance(value, dict)
IsObject(value) == "object" \in DOMAIN value

\* the states of a file: missing, present but not readable, readable but
\* no JSON, and a JSON document with its value
Absent == [kind |-> "absent"]

Unreadable == [kind |-> "unreadable"]

Garbled == [kind |-> "text"]

JsonFile(value) == [kind |-> "json", v |-> value]

\* PRICING, in units of 0.05 USD per million tokens (0.150 USD is 3 units)
PRICING ==
    [model \in {"gpt-4o-mini", "gpt-4o", "gpt-4-turbo"} |->
        CASE model = "gpt-4o-mini" -> [input |-> 3, output |-> 12]
          [] model = "gpt-4o" -> [input |-> 50, output |-> 200]
          [] model = "gpt-4-turbo" -> [input |-> 200, output |-> 600]]

\* mutant: a model missing from the table gets the prices of gpt-4o
pricing_FallbackOther(model) ==
    IF model \in DOMAIN PRICING THEN PRICING[model] ELSE PRICING["gpt-4o"]

\* self.PRICING.get(model, self.PRICING['gpt-4o-mini'])
pricing(model) ==
    IF model \in DOMAIN PRICING THEN PRICING[model] ELSE PRICING["gpt-4o-mini"]

\* price units x tokens in one ten-thousandth of a dollar:
\* 1 unit x 1 token = 0.05 / 1,000,000 USD = 1 / 2000 of 0.0001 USD
CostDivisor == 2000

\* input_cost + output_cost, in 1 / CostDivisor of 0.0001 USD
CostNumerator(session) ==
    session.total_input_tokens * pricing(session.model).input
    + session.total_output_tokens * pricing(session.model).output

\* round(input_cost + output_cost, 4) in units of 0.0001 USD: the nearest
\* unit; when the exact cost lies halfway between two units the binary
\* floating-point sum lies on either side, and both units are possible
EstimatedCosts(session) ==
    LET q == CostNumerator(session) \div CostDivisor
        r == CostNumerator(session) % CostDivisor
    IN  IF 2 * r < CostDivisor THEN {q}
        ELSE IF 2 * r > CostDivisor THEN {q + 1}
        ELSE {q, q + 1}

\* del self.current_session['start_time']
WithoutStartTime(session) ==
    [f \in DOMAIN session \ {"start_time"} |-> session[f]]

\* end_session up to the del statement: the finalized session
Finalized(session, clock, cost) ==
    WithoutStartTime([session EXCEPT
                        !.duration_seconds = clock - session.start_time,
                        !.estimated_cost_usd = cost])

\* _load_history: the value of self.sessions after construction
load_history(file) ==
    IF file.kind # "json" THEN JsonList(<<>>)
    ELSE IF ~IsObject(file.v) THEN JsonList(<<>>)
    ELSE IF "sessions" \in DOMAIN file.v.fields THEN file.v.fields.sessions
    ELSE JsonList(<<>>)

\* what a write to the log file meets: it succeeds, the file cannot be
\* created or opened, or the write breaks off after the file was truncated
DiskOutcomes == {"ok", "denied", "partial"}

\* _save_history: the file afterwards, and whether the write raised
save_history(hist, file, clock, disk) ==
    IF disk = "ok"
    THEN [log_file |-> JsonFile(JsonObject([sessions |-> hist,
                                             last_updated |-> clock])),
          raised |-> FALSE]
    ELSE IF disk = "denied"
    THEN [log_file |-> file, raised |-> TRUE]
    ELSE [log_file |-> Garbled, raised |-> TRUE]

\* what end_session leaves and returns when it does nothing or raises early
EndUnchanged(current, hist, file, isShared, hasRaised) ==
    [current_session |-> current, sessions |-> hist, log_file |-> file,
     shared |-> isShared, ret |-> None, raised |-> hasRaised]

\* end_session: the ledger afterwards, what is returned, whether it raised.
\* A raise leaves what the statements before it did: the session finalized
\* in place, and after the append the same object in the history too
end_session(current, hist, file, isShared, clock, cost, disk) ==
    IF current = None THEN EndUnchanged(current, hist, file, isShared, FALSE)
    ELSE IF "start_time" \notin DOMAIN Get(current)
    THEN EndUnchanged(current, hist, file, isShared, TRUE)
    ELSE LET session == Finalized(Get(current), clock, cost)
         IN  IF ~hist.list
             THEN EndUnchanged(Some(session), hist, file, isShared, TRUE)
             ELSE LET appended == JsonList(Append(hist.items, session))
                      saved == save_history(appended, file, clock, disk)
                  IN  IF saved.raised
                      THEN [current_session |-> Some(session),
                            sessions |-> appended,
                            log_file |-> saved.log_file,
                            shared |-> TRUE,
                            ret |-> None, raised |-> TRUE]
                      ELSE [current_session |-> None,
                            sessions |-> appended,
                            log_file |-> saved.log_file,
                            shared |-> FALSE,
                            ret |-> Some(session), raised |-> FALSE]

\* the keys get_total_usage reads with session[...]
IsSessionEntry(entry) ==
    {"total_input_tokens", "total_output_tokens", "total_tokens", "phase"}
        \subseteq DOMAIN entry

\* session.get('estimated_cost_usd', 0.0)
CostOf(entry) ==
    IF "estimated_cost_usd" \in DOMAIN entry THEN entry.estimated_cost_usd ELSE 0

RECURSIVE SumOver(_, _)
SumOver(items, field) ==
    IF items = <<>> THEN 0
    ELSE (IF field = "cost" THEN CostOf(Head(items)) ELSE Head(items)[field])
         + SumOver(Tail(items), field)

\* the loop of get_total_usage over a list of sessions
TotalUsage(items) ==
    [total_sessions |-> Len(items),
     total_input_tokens |-> SumOver(items, "total_input_tokens"),
     total_output_tokens |-> SumOver(items, "total_output_tokens"),
     total_tokens |-> SumOver(items, "total_tokens"),
     total_cost_usd |-> SumOver(items, "cost"),
     by_phase |->
        [phase \in {items[k].phase : k \in 1..Len(items)} |->
            LET of == SelectSeq(items, LAMBDA e : e.phase = phase)
            IN  [sessions |-> Len(of),
                 tokens |-> SumOver(of, "total_tokens"),
                 cost_usd |-> SumOver(of, "cost")]]]

\* mutant: the sessions read are taken out of the history
get_total_usage_Drains(hist) ==
    IF ~hist.list
    THEN [ret |-> None, raised |-> TRUE, sessions |-> hist]
    ELSE IF \E k \in 1..Len(hist.items) : ~IsSessionEntry(hist.items[k])
    THEN [ret |-> None, raised |-> TRUE, sessions |-> hist]
    ELSE [ret |-> Some(TotalUsage(hist.items)), raised |-> FALSE,
          sessions |-> JsonList(<<>>)]

\* get_total_usage: the totals, whether it raised (a history that is no
\* list, an entry that is no session), and self.sessions afterwards
get_total_usage(hist) ==
    IF ~hist.list
    THEN [ret |-> None, raised |-> TRUE, sessions |-> hist]
    ELSE IF \E k \in 1..Len(hist.items) : ~IsSessionEntry(hist.items[k])
    THEN [ret |-> None, raised |-> TRUE, sessions |-> hist]
    ELSE [ret |-> Some(TotalUsage(hist.items)), raised |-> FALSE,
          sessions |-> hist]

\* the loader and the dispatcher of a run that does not use them
FrontUnused ==
    /\ taxonomy_file = Absent
    /\ error = None
    /\ argv = <<>>
    /\ plan = <<>>
    /\ events = <<>>

\* the ledger of a run that does not use it
LedgerUnused ==
    /\ sessions = JsonList(<<>>)
    /\ log_file = Absent
    /\ shared = FALSE
    /\ op = "none"
    /\ ret = None
    /\ raised = FALSE
    /\ now = 0
    /\ replaced = {}

\* the files and the configuration of a run that does not use them
PhaseUnused ==
    /\ complaints_file = Absent
    /\ results_file = Absent
    /\ api_key = FALSE
    /\ frame = <<>>

\* a run with one tracker only
FleetUnused ==
    /\ ledgers = <<>>
    /\ written = <<>>

-----------------------------------------------------------------------------
(* The run: run_phase4 opens the session, then calls classify_all *)

\* one LLM call: the prompt template used, the complaints in the prompt, the
\* response, and the length of results when the call was issued
Request(template, batch, resp, before) ==
    [template |-> template, ids |-> Ids(batch), resp |-> resp, before |-> before]

\* a response off the baseline uses up one of the faults of the run
Fault(resp, baseline) ==
    IF resp = baseline THEN faults' = faults
    ELSE faults < MaxFaults /\ faults' = faults + 1

\* short runs, and the runs around the threshold of the batch mode
RunSizes == (0..SmallRun) \cup (BatchThreshold..MaxComplaints)

Init ==
    /\ complaints \in {ComplaintList(n) : n \in RunSizes}
    /\ use_batch \in BOOLEAN
    /\ taxonomy = None
    /\ pc = "ready"
    /\ i = 0
    /\ results = <<>>
    /\ returned = None
    /\ tracker \in BOOLEAN
    /\ current_session = None
    /\ requests = <<>>
    /\ faults = 0
    /\ summary_in = <<>>
    /\ summary = None
    /\ LedgerUnused
    /\ FrontUnused
    /\ PhaseUnused
    /\ FleetUnused

\* run_phase4: classifier.tracker.start_session(...)
StartSession ==
    /\ pc = "ready"
    /\ tracker
    /\ current_session = None
    /\ current_session' = start_session("Phase 4 - Classification",
                                         "gpt-4o-mini", now)
    /\ UNCHANGED <<complaints, use_batch, taxonomy, pc, i, results, returned,
                   tracker, requests, faults, summary_in, summary>>
    /\ UNCHANGED ledgerVars
    /\ UNCHANGED frontVars
    /\ UNCHANGED <<phaseVars, fleetVars>>

\* classify_all up to the first iteration of the loop it selects
ClassifyAll ==
    /\ pc = "ready"
    /\ taxonomy' = Some(Taxonomy)
    /\ pc' = IF UseBatchMode(use_batch, Len(complaints)) THEN "batch" ELSE "single"
    /\ i' = 0
    /\ results' = <<>>
    /\ UNCHANGED <<complaints, use_batch, returned, tracker, current_session,
                   requests, faults, summary_in, summary>>
    /\ UNCHANGED ledgerVars
    /\ UNCHANGED frontVars
    /\ UNCHANGED <<phaseVars, fleetVars>>

\* classify_batch: one iteration of the loop over the chunks
BatchStep ==
    /\ pc = "batch"
    /\ i < Len(complaints)
    /\ LET batch == ChunkAt(complaints, i, BatchSize)
       IN  \E resp \in BatchResponses(batch) :
             LET r == classify_chunk(batch, Get(taxonomy), tracker,
                                     current_session, resp)
             IN  /\ Fault(resp, BatchBaseline(batch))
                 /\ results' = results \o r.out
                 /\ current_session' = r.session
                 /\ requests' = Append(requests,
                                        Request("batch", batch, resp, Len(results)))
    /\ i' = i + BatchSize
    /\ UNCHANGED <<complaints, use_batch, taxonomy, pc, returned, tracker,
                   summary_in, summary>>
    /\ UNCHANGED ledgerVars
    /\ UNCHANGED frontVars
    /\ UNCHANGED <<phaseVars, fleetVars>>

\* classify_batch: the loop is over, classify_all returns results
BatchReturn ==
    /\ pc = "batch"
    /\ i >= Len(complaints)
    /\ returned' = Some(results)
    /\ pc' = "done"
    /\ UNCHANGED <<complaints, use_batch, taxonomy, i, results, tracker,
                   current_session, requests, faults, summary_in, summary>>
    /\ UNCHANGED ledgerVars
    /\ UNCHANGED frontVars
    /\ UNCHANGED <<phaseVars, fleetVars>>

\* classify_all: one iteration of the single-mode loop
SingleStep ==
    /\ pc = "single"
    /\ i < Len(complaints)
    /\ LET complaint == complaints[i + 1]
       IN  \E resp \in SingleResponses(complaint) :
             LET category == classify_complaint(complaint, Get(taxonomy), resp)
             IN  /\ Fault(resp, SingleBaseline(complaint))
                 /\ results' = Append(results,
                                      Assignment(complaint.complaint_id, category))
                 /\ requests' = Append(requests,
                                        Request("single", <<complaint>>, resp,
                                                Len(results)))
    /\ i' = i + 1
    /\ UNCHANGED <<complaints, use_batch, taxonomy, pc, returned, tracker,
                   current_session, summary_in, summary>>
    /\ UNCHANGED ledgerVars
    /\ UNCHANGED frontVars
    /\ UNCHANGED <<phaseVars, fleetVars>>

\* classify_all: the single-mode loop is over, results is returned
SingleReturn ==
    /\ pc = "single"
    /\ i >= Len(complaints)
    /\ returned' = Some(results)
    /\ pc' = "done"
    /\ UNCHANGED <<complaints, use_batch, taxonomy, i, results, tracker,
                   current_session, requests, faults, summary_in, summary>>
    /\ UNCHANGED ledgerVars
    /\ UNCHANGED frontVars
    /\ UNCHANGED <<phaseVars, fleetVars>>

Next ==
    \/ StartSession
    \/ ClassifyAll
    \/ BatchStep
    \/ BatchReturn
    \/ SingleStep
    \/ SingleReturn

Spec == Init /\ [][Next]_vars

-----------------------------------------------------------------------------
(* Summary aggregator: generate_summary *)

\* mutant: a category seen again is set to 1 instead of counted up
CountCategory_Reset(category_counts, category) ==
    IF \E k \in 1..Len(category_counts) : category_counts[k].category = category
    THEN [k \in 1..Len(category_counts) |->
            IF category_counts[k].category = category
            THEN [category_counts[k] EXCEPT !.count = 1]
            ELSE category_counts[k]]
    ELSE Append(category_counts, [category |-> category, count |-> 1])

\* category_counts[category] = category_counts.get(category, 0) + 1, on a
\* dict that keeps its keys in insertion order
CountCategory(category_counts, category) ==
    IF \E k \in 1..Len(category_counts) : category_counts[k].category = category
    THEN [k \in 1..Len(category_counts) |->
            IF category_counts[k].category = category
            THEN [category_counts[k] EXCEPT !.count = @ + 1]
            ELSE category_counts[k]]
    ELSE Append(category_counts, [category |-> category, count |-> 1])

\* the counting loop over results
RECURSIVE CategoryCounts(_)
CategoryCounts(res) ==
    IF res = <<>> THEN <<>>
    ELSE CountCategory(CategoryCounts(SubSeq(res, 1, Len(res) - 1)),
                       res[Len(res)].assigned_category)

\* mutant: an item is placed before the items of equal count (ties reversed)
RECURSIVE InsertByCount_TiesReversed(_, _)
InsertByCount_TiesReversed(sorted, item) ==
    IF sorted = <<>> THEN <<item>>
    ELSE IF Head(sorted).count > item.count
         THEN <<Head(sorted)>> \o InsertByCount_TiesReversed(Tail(sorted), item)
         ELSE <<item>> \o sorted

\* item placed after the items whose count is not smaller (a stable sort)
RECURSIVE InsertByCount(_, _)
InsertByCount(sorted, item) ==
    IF sorted = <<>> THEN <<item>>
    ELSE IF Head(sorted).count >= item.count
         THEN <<Head(sorted)>> \o InsertByCount(Tail(sorted), item)
         ELSE <<item>> \o sorted

\* sorted(items, key=count, reverse=True)
RECURSIVE SortByCount(_)
SortByCount(items) ==
    IF items = <<>> THEN <<>>
    ELSE InsertByCount(SortByCount(SubSeq(items, 1, Len(items) - 1)),
                       items[Len(items)])

\* num / den rounded to the nearest integer, ties to the even one
RoundHalfEven(num, den) ==
    LET q == num \div den
        r == num % den
    IN  IF 2 * r < den THEN q
        ELSE IF 2 * r > den THEN q + 1
        ELSE IF q % 2 = 0 THEN q ELSE q + 1

\* round((count / total) * 100, 2), in hundredths of a percent
Percentage(count, total) == RoundHalfEven(count * 100 * 100, total)

\* generate_summary: None when the division by total raises
generate_summary(res) ==
    LET total == Len(res)
        ordered == SortByCount(CategoryCounts(res))
    IN  IF total = 0 /\ ordered # <<>> THEN None
        ELSE Some([total_complaints |-> total,
                   category_distribution |->
                      [k \in 1..Len(ordered) |->
                          [category |-> ordered[k].category,
                           count |-> ordered[k].count,
                           percentage |-> Percentage(ordered[k].count, total)]]])

\* the labels an assignment may carry
Labels == CategoryNames(Taxonomy) \cup {"OTHER", "ERROR"}

AssignmentLists ==
    UNION { { [k \in 1..n |-> Assignment(k, f[k])] : f \in [1..n -> Labels] }
            : n \in 0..MaxAssignments }

InitSummary ==
    /\ complaints = <<>>
    /\ use_batch = FALSE
    /\ taxonomy = None
    /\ pc = "summary"
    /\ i = 0
    /\ results = <<>>
    /\ returned = None
    /\ tracker = FALSE
    /\ current_session = None
    /\ requests = <<>>
    /\ faults = 0
    /\ summary_in \in AssignmentLists
    /\ summary = None
    /\ LedgerUnused
    /\ FrontUnused
    /\ PhaseUnused
    /\ FleetUnused

\* summary = classifier.generate_summary(results)
GenerateSummary ==
    /\ pc = "summary"
    /\ pc' = "summarized"
    /\ summary' = generate_summary(summary_in)
    /\ UNCHANGED <<complaints, use_batch, taxonomy, i, results, returned, tracker,
                   current_session, requests, faults, summary_in>>
    /\ UNCHANGED ledgerVars
    /\ UNCHANGED frontVars
    /\ UNCHANGED <<phaseVars, fleetVars>>

NextSummary == GenerateSummary

SpecSummary == InitSummary /\ [][NextSummary]_vars

-----------------------------------------------------------------------------
(* The usage ledger on its own: an OpenAIUsageTracker is constructed over a *)
(* log file in any state and its operations are called in any order.       *)

\* the classifier of a run that only uses the ledger
ClassifierUnused ==
    /\ complaints = <<>>
    /\ use_batch = FALSE
    /\ taxonomy = None
    /\ i = 0
    /\ results = <<>>
    /\ returned = None
    /\ tracker = TRUE
    /\ requests = <<>>
    /\ faults = 0
    /\ summary_in = <<>>
    /\ summary = None

\* the arguments of start_session: the two phases that track usage, a model
\* of the price table, another one, and a model the table does not list
SessionArgs ==
    { <<"Phase 4 - Classification", "gpt-4o-mini">>,
      <<"Phase 2 - Theme Discovery", "gpt-4o">>,
      <<"Phase 4 - Classification", "o1-mini">> }

\* the token counts of a call: (input_tokens, output_tokens)
TokenCounts == { <<1000000, 500000>>, <<1000, 0>> }

\* a session an earlier run finalized and saved
OldSession ==
    WithoutStartTime(
        [Get(log_call(start_session("Phase 2 - Theme Discovery",
                                    "gpt-4o-mini", 0), 1000, 0))
            EXCEPT !.duration_seconds = 1, !.estimated_cost_usd = 1])

\* an array entry that is no session
NoSession == [json_number |-> 7]

\* the log file the ledger is constructed over
LogFiles ==
    { Absent, Unreadable, Garbled,
      JsonFile(JsonList(<<OldSession>>)),
      JsonFile(JsonObject([foo |-> 1])),
      JsonFile(JsonObject([sessions |-> JsonList(<<OldSession>>),
                           last_updated |-> 0])),
      JsonFile(JsonObject([sessions |-> JsonNumber, last_updated |-> 0])),
      JsonFile(JsonObject([sessions |-> JsonList(<<NoSession>>),
                           last_updated |-> 0])) }

InitLedger ==
    /\ ClassifierUnused
    /\ pc = "new"
    /\ current_session = None
    /\ sessions = JsonList(<<>>)
    /\ log_file \in LogFiles
    /\ shared = FALSE
    /\ op = "none"
    /\ ret = None
    /\ raised = FALSE
    /\ now = 1
    /\ replaced = {}
    /\ FrontUnused
    /\ PhaseUnused
    /\ FleetUnused

\* OpenAIUsageTracker.__init__
Construct ==
    /\ pc = "new"
    /\ pc' = "ledger"
    /\ sessions' = load_history(log_file)
    /\ current_session' = None
    /\ op' = "construct"
    /\ ret' = None
    /\ raised' = FALSE
    /\ UNCHANGED <<complaints, use_batch, taxonomy, i, results, returned,
                   tracker, requests, faults, summary_in, summary>>
    /\ UNCHANGED <<log_file, shared, now, replaced>>
    /\ UNCHANGED frontVars
    /\ UNCHANGED <<phaseVars, fleetVars>>

\* the start_datetime of the sessions a JSON value lists
StartsListed(value) ==
    IF ~value.list THEN {}
    ELSE {value.items[k].start_datetime :
             k \in {j \in 1..Len(value.items) :
                       "start_datetime" \in DOMAIN value.items[j]}}

\* the sessions this ledger started, by their start_datetime (the sessions
\* of earlier runs started before the clock of this run)
SessionsStarted ==
    { t \in replaced \cup StartsListed(sessions)
              \cup (IF current_session = None THEN {}
                    ELSE {Get(current_session).start_datetime}) :
        t >= 1 }

\* tracker.start_session(phase, model)
OpenSession ==
    /\ pc = "ledger"
    /\ Cardinality(SessionsStarted) < MaxSessions
    /\ \E args \in SessionArgs :
          current_session' = start_session(args[1], args[2], now)
    /\ now' = now + 1
    /\ shared' = FALSE
    /\ replaced' = IF current_session = None THEN replaced
                   ELSE replaced \cup {Get(current_session).start_datetime}
    /\ op' = "start_session"
    /\ ret' = None
    /\ raised' = FALSE
    /\ UNCHANGED <<complaints, use_batch, taxonomy, pc, i, results, returned,
                   tracker, requests, faults, summary_in, summary>>
    /\ UNCHANGED <<sessions, log_file>>
    /\ UNCHANGED frontVars
    /\ UNCHANGED <<phaseVars, fleetVars>>

\* the number of calls the ledger holds, in its history and its open session
RECURSIVE CallsIn(_)
CallsIn(items) ==
    IF items = <<>> THEN 0
    ELSE (IF "calls" \in DOMAIN Head(items) THEN Len(Head(items).calls) ELSE 0)
         + CallsIn(Tail(items))

CallsHeld ==
    (IF sessions.list THEN CallsIn(sessions.items) ELSE 0)
    + (IF current_session # None /\ ~shared
       THEN Len(Get(current_session).calls) ELSE 0)

\* tracker.log_call(input_tokens, output_tokens, duration); the session it
\* updates is the last entry of the history too when both are one object
LogCall ==
    /\ pc = "ledger"
    /\ current_session # None => CallsHeld < MaxCalls
    /\ \E tokens \in TokenCounts :
          current_session' = log_call(current_session, tokens[1], tokens[2])
    /\ sessions' = IF shared
                   THEN JsonList([sessions.items EXCEPT
                                     ![Len(sessions.items)] = Get(current_session')])
                   ELSE sessions
    /\ op' = "log_call"
    /\ ret' = None
    /\ raised' = FALSE
    /\ UNCHANGED <<complaints, use_batch, taxonomy, pc, i, results, returned,
                   tracker, requests, faults, summary_in, summary>>
    /\ UNCHANGED <<log_file, shared, now, replaced>>
    /\ UNCHANGED frontVars
    /\ UNCHANGED <<phaseVars, fleetVars>>

\* is the session one that end_session can finalize
CanFinalize(current) == current # None /\ "start_time" \in DOMAIN Get(current)

\* tracker.end_session()
EndSession ==
    /\ pc = "ledger"
    /\ \E disk \in DiskOutcomes :
       \E cost \in IF CanFinalize(current_session)
                   THEN EstimatedCosts(Get(current_session)) ELSE {0} :
          LET r == end_session(current_session, sessions, log_file, shared,
                               now, cost, disk)
          IN  /\ current_session' = r.current_session
              /\ sessions' = r.sessions
              /\ log_file' = r.log_file
              /\ shared' = r.shared
              /\ ret' = r.ret
              /\ raised' = r.raised
    /\ now' = IF CanFinalize(current_session) THEN now + 1 ELSE now
    /\ op' = "end_session"
    /\ UNCHANGED <<complaints, use_batch, taxonomy, pc, i, results, returned,
                   tracker, requests, faults, summary_in, summary>>
    /\ UNCHANGED replaced
    /\ UNCHANGED frontVars
    /\ UNCHANGED <<phaseVars, fleetVars>>

\* tracker.get_total_usage()
GetTotalUsage ==
    /\ pc = "ledger"
    /\ LET r == get_total_usage(sessions)
       IN  /\ ret' = r.ret
           /\ raised' = r.raised
           /\ sessions' = r.sessions
    /\ op' = "get_total_usage"
    /\ UNCHANGED <<complaints, use_batch, taxonomy, pc, i, results, returned,
                   tracker, requests, faults, summary_in, summary>>
    /\ UNCHANGED <<current_session, log_file, shared, now, replaced>>
    /\ UNCHANGED frontVars
    /\ UNCHANGED <<phaseVars, fleetVars>>

NextLedger ==
    \/ Construct
    \/ OpenSession
    \/ LogCall
    \/ EndSession
    \/ GetTotalUsage

SpecLedger == InitLedger /\ [][NextLedger]_vars

-----------------------------------------------------------------------------
(* Taxonomy store: load_taxonomy *)

\* the exceptions load_taxonomy ends with
FileNotFoundError == "FileNotFoundError"

PermissionError == "PermissionError"

JSONDecodeError == "JSONDecodeError"

ValueError == "ValueError"

\* load_taxonomy: what it returns, or the exception it raises
load_taxonomy(file) ==
    IF file.kind = "absent" THEN [ret |-> None, error |-> Some(FileNotFoundError)]
    ELSE IF file.kind = "unreadable"
    THEN [ret |-> None, error |-> Some(PermissionError)]
    ELSE IF file.kind = "text"
    THEN [ret |-> None, error |-> Some(JSONDecodeError)]
    ELSE LET taxonomy_data == file.v
         IN  IF IsObject(taxonomy_data)
                /\ "proposed_categories" \in DOMAIN taxonomy_data.fields
             THEN [ret |-> Some(taxonomy_data.fields.proposed_categories),
                   error |-> None]
             ELSE IF taxonomy_data.list
             THEN [ret |-> Some(taxonomy_data), error |-> None]
             ELSE [ret |-> None, error |-> Some(ValueError)]

Category(name) == [category_name |-> name, category_description |-> "d"]

\* the category sequences a taxonomy file may hold
CategoryLists ==
    UNION { [1..n -> {Category("X"), Category("Y")}] : n \in 0..MaxCategories }

\* the taxonomy files: every category sequence as a bare array, under the
\* key proposed_categories (alone or next to another member) and under
\* another key; JSON of other shapes; files that are no JSON or cannot be read
TaxonomyFiles ==
    UNION { { JsonFile(JsonList(l)),
              JsonFile(JsonObject([proposed_categories |-> JsonList(l)])),
              JsonFile(JsonObject([proposed_categories |-> JsonList(l),
                                   analysis_summary |-> JsonNumber])),
              JsonFile(JsonObject([categories |-> JsonList(l)])) }
            : l \in CategoryLists }
    \cup { JsonFile(JsonNumber),
           JsonFile(JsonObject([foo |-> JsonNumber])),
           JsonFile(JsonObject([proposed_categories |-> JsonNumber])),
           Absent, Unreadable, Garbled }

InitTaxonomy ==
    /\ ClassifierUnused
    /\ LedgerUnused
    /\ current_session = None
    /\ pc = "load"
    /\ taxonomy_file \in TaxonomyFiles
    /\ error = None
    /\ argv = <<>>
    /\ plan = <<>>
    /\ events = <<>>
    /\ PhaseUnused
    /\ FleetUnused

\* taxonomy = classifier.load_taxonomy(config.CURATED_TAXONOMY_FILE)
LoadTaxonomy ==
    /\ pc = "load"
    /\ pc' = "loaded"
    /\ ret' = load_taxonomy(taxonomy_file).ret
    /\ error' = load_taxonomy(taxonomy_file).error
    /\ raised' = (load_taxonomy(taxonomy_file).error # None)
    /\ op' = "load_taxonomy"
    /\ UNCHANGED <<complaints, use_batch, taxonomy, i, results, returned,
                   tracker, current_session, requests, faults, summary_in,
                   summary>>
    /\ UNCHANGED <<sessions, log_file, shared, now, replaced>>
    /\ UNCHANGED <<taxonomy_file, argv, plan, events>>
    /\ UNCHANGED <<phaseVars, fleetVars>>

NextTaxonomy == LoadTaxonomy

SpecTaxonomy == InitTaxonomy /\ [][NextTaxonomy]_vars

-----------------------------------------------------------------------------
(* Dispatcher: main() of main.py *)

\* str.lower() on the selectors of the command lines below
Lower(word) ==
    CASE word = "ALL" -> "all"
      [] word = "All" -> "all"
      [] word = "PHASE2" -> "phase2"
      [] word = "Phase4" -> "phase4"
      [] OTHER -> word

\* the statements of the branch `all`: run_phase1(), input(...),
\* run_phase2(), input(...), run_phase4()
AllPhases == <<"run_phase1", "input", "run_phase2", "input", "run_phase4">>

\* mutant: the branch `all` runs the phases without waiting in between
Plan_NoPause(phase) ==
    IF phase \in {"1", "phase1"} THEN <<"run_phase1">>
    ELSE IF phase \in {"2", "phase2"} THEN <<"run_phase2">>
    ELSE IF phase \in {"4", "phase4"} THEN <<"run_phase4">>
    ELSE IF phase = "all" THEN <<"run_phase1", "run_phase2", "run_phase4">>
    ELSE <<>>

\* the if / elif chain of main: the calls the selected branch makes
Plan(phase) ==
    IF phase \in {"1", "phase1"} THEN <<"run_phase1">>
    ELSE IF phase \in {"2", "phase2"} THEN <<"run_phase2">>
    ELSE IF phase \in {"4", "phase4"} THEN <<"run_phase4">>
    ELSE IF phase = "all" THEN AllPhases
    ELSE <<>>

\* sys.argv[1:]
CommandLines ==
    { <<>>, <<"1">>, <<"phase1">>, <<"2">>, <<"phase2">>, <<"PHASE2">>,
      <<"4">>, <<"phase4">>, <<"Phase4">>, <<"all">>, <<"ALL">>, <<"All">>,
      <<"all", "4">>, <<"3">>, <<"phase3">> }

Started(phase) == [e |-> "start", phase |-> phase]

Ended(phase, outcome) == [e |-> "end", phase |-> phase, outcome |-> outcome]

Input(outcome) == [e |-> "input", outcome |-> outcome]

InitMain ==
    /\ ClassifierUnused
    /\ LedgerUnused
    /\ current_session = None
    /\ pc = "main"
    /\ taxonomy_file = Absent
    /\ error = None
    /\ argv \in CommandLines
    /\ plan = <<>>
    /\ events = <<>>
    /\ PhaseUnused
    /\ FleetUnused

\* main up to the branch it selects; without a selector it prints the usage
Main ==
    /\ pc = "main"
    /\ IF Len(argv) < 1
       THEN pc' = "exit" /\ plan' = <<>>
       ELSE pc' = "dispatch" /\ plan' = Plan(Lower(argv[1]))
    /\ UNCHANGED <<complaints, use_batch, taxonomy, i, results, returned,
                   tracker, current_session, requests, faults, summary_in,
                   summary>>
    /\ UNCHANGED ledgerVars
    /\ UNCHANGED <<taxonomy_file, error, argv, events>>
    /\ UNCHANGED <<phaseVars, fleetVars>>

\* main calls the phase function that is next in the branch
CallPhase ==
    /\ pc = "dispatch"
    /\ plan # <<>>
    /\ Head(plan) # "input"
    /\ events' = Append(events, Started(Head(plan)))
    /\ pc' = "in_phase"
    /\ UNCHANGED <<complaints, use_batch, taxonomy, i, results, returned,
                   tracker, current_session, requests, faults, summary_in,
                   summary>>
    /\ UNCHANGED ledgerVars
    /\ UNCHANGED <<taxonomy_file, error, argv, plan>>
    /\ UNCHANGED <<phaseVars, fleetVars>>

\* the phase function returns (after its work or after an error message),
\* or raises, which ends main
PhaseEnds ==
    /\ pc = "in_phase"
    /\ \E outcome \in {"returned", "raised"} :
          /\ events' = Append(events, Ended(Head(plan), outcome))
          /\ IF outcome = "returned"
             THEN pc' = "dispatch" /\ plan' = Tail(plan)
             ELSE pc' = "exit" /\ plan' = <<>>
    /\ UNCHANGED <<complaints, use_batch, taxonomy, i, results, returned,
                   tracker, current_session, requests, faults, summary_in,
                   summary>>
    /\ UNCHANGED ledgerVars
    /\ UNCHANGED <<taxonomy_file, error, argv>>
    /\ UNCHANGED <<phaseVars, fleetVars>>

\* input("Press Enter to continue ..."): a line is read, or standard input
\* is at its end and input raises, which ends main
ReadInput ==
    /\ pc = "dispatch"
    /\ plan # <<>>
    /\ Head(plan) = "input"
    /\ \E outcome \in {"enter", "eof"} :
          /\ events' = Append(events, Input(outcome))
          /\ IF outcome = "enter"
             THEN pc' = "dispatch" /\ plan' = Tail(plan)
             ELSE pc' = "exit" /\ plan' = <<>>
    /\ UNCHANGED <<complaints, use_batch, taxonomy, i, results, returned,
                   tracker, current_session, requests, faults, summary_in,
                   summary>>
    /\ UNCHANGED ledgerVars
    /\ UNCHANGED <<taxonomy_file, error, argv>>
    /\ UNCHANGED <<phaseVars, fleetVars>>

\* the branch is through: main returns
MainReturns ==
    /\ pc = "dispatch"
    /\ plan = <<>>
    /\ pc' = "exit"
    /\ UNCHANGED <<complaints, use_batch, taxonomy, i, results, returned,
                   tracker, current_session, requests, faults, summary_in,
                   summary>>
    /\ UNCHANGED ledgerVars
    /\ UNCHANGED frontVars
    /\ UNCHANGED <<phaseVars, fleetVars>>

NextMain ==
    \/ Main
    \/ CallPhase
    \/ PhaseEnds
    \/ ReadInput
    \/ MainReturns

SpecMain == InitMain /\ [][NextMain]_vars

-----------------------------------------------------------------------------
(* Phase 4 from its entry: run_phase4.  The statements run in sequence and  *)
(* an exception that no statement catches leaves run_phase4 at once.        *)

TypeError == "TypeError"

KeyError == "KeyError"

OSError == "OSError"

AttributeError == "AttributeError"

\* load_complaints: what it returns, or the exception it raises
load_complaints(file) ==
    IF file.kind = "absent" THEN [ret |-> None, error |-> Some(FileNotFoundError)]
    ELSE IF file.kind = "unreadable"
    THEN [ret |-> None, error |-> Some(PermissionError)]
    ELSE IF file.kind = "text"
    THEN [ret |-> None, error |-> Some(JSONDecodeError)]
    ELSE [ret |-> Some(file.v), error |-> None]

\* cat['category_name'] and cat['category_description'] of the prompt
IsCategory(cat) ==
    {"category_name", "category_description"} \subseteq DOMAIN cat

\* complaint['complaint_id'] of the loops
IsComplaint(complaint) == "complaint_id" \in DOMAIN complaint

\* the responses of the LLM in a phase-4 run: the answer asked for, an
\* exception, and (where the usage is read) the answer without usage record
BatchReplies(batch) ==
    { BatchBaseline(batch), Raised,
      Returned(BatchBaseline(batch).content, None) }

SingleReplies(complaint) == { SingleBaseline(complaint), Raised }

\* the result of a call that raised, with the session as it was left
Aborted(session) == [raised |-> TRUE, out |-> <<>>, session |-> session]

\* classify_batch from the chunk at `start` on, for one response per chunk:
\* the prompt of a chunk is built before the try block, so a complaint
\* without complaint_id raises to the caller
RECURSIVE classify_batch(_, _, _, _, _, _)
classify_batch(list, start, tax, trk, session, resps) ==
    IF start >= Len(list)
    THEN [raised |-> FALSE, out |-> <<>>, session |-> session]
    ELSE LET batch == ChunkAt(list, start, BatchSize)
         IN  IF \E k \in 1..Len(batch) : ~IsComplaint(batch[k])
             THEN Aborted(session)
             ELSE LET r == classify_chunk(batch, tax, trk, session, Head(resps))
                      rest == classify_batch(list, start + BatchSize, tax, trk,
                                             r.session, Tail(resps))
                  IN  [raised |-> rest.raised,
                       out |-> IF rest.raised THEN <<>> ELSE r.out \o rest.out,
                       session |-> rest.session]

\* classify_all(complaints, taxonomy, use_batch): the list it returns or the
\* raise, and the session afterwards.  The taxonomy text is built outside
\* every try block (once in batch mode, per complaint in single mode), and
\* single mode keys each result by complaint['complaint_id']
classify_all(list, tax, use, trk, session, resps) ==
    IF UseBatchMode(use, Len(list))
    THEN IF \E k \in 1..Len(tax) : ~IsCategory(tax[k])
         THEN Aborted(session)
         ELSE classify_batch(list, 0, tax, trk, session, resps)
    ELSE IF list # <<>> /\ (\/ \E k \in 1..Len(tax) : ~IsCategory(tax[k])
                            \/ \E k \in 1..Len(list) : ~IsComplaint(list[k]))
         THEN Aborted(session)
         ELSE [raised |-> FALSE,
               out |-> [k \in 1..Len(list) |->
                          Assignment(list[k].complaint_id,
                                     classify_complaint(list[k], tax, resps[k]))],
               session |-> session]

\* the number of LLM calls classify_all issues when nothing raises
CallsOf(list, use) ==
    IF UseBatchMode(use, Len(list))
    THEN (Len(list) + BatchSize - 1) \div BatchSize
    ELSE Len(list)

\* the responses call k of classify_all may get (no call is made for
\* complaints the prompt cannot be built from)
RepliesTo(list, use, k) ==
    LET batch == IF UseBatchMode(use, Len(list))
                 THEN ChunkAt(list, (k - 1) * BatchSize, BatchSize)
                 ELSE <<list[k]>>
    IN  IF \E j \in 1..Len(batch) : ~IsComplaint(batch[j]) THEN {Raised}
        ELSE IF UseBatchMode(use, Len(list)) THEN BatchReplies(batch)
        ELSE SingleReplies(batch[1])

\* one response per call of classify_all
ReplySequences(list, use) ==
    { resps \in [1..CallsOf(list, use) ->
                    UNION { RepliesTo(list, use, k) : k \in 1..CallsOf(list, use) }] :
        \A k \in 1..CallsOf(list, use) : resps[k] \in RepliesTo(list, use, k) }

\* the curated taxonomy, with the descriptions the prompt needs
CuratedTaxonomy == [k \in 1..Len(Taxonomy) |-> Category(Taxonomy[k].category_name)]

\* taxonomy files of a phase-4 run: the two accepted shapes, other JSON,
\* categories without description or name, and files that cannot be loaded
Phase4TaxonomyFiles ==
    { Absent, Unreadable, Garbled,
      JsonFile(JsonList(CuratedTaxonomy)),
      JsonFile(JsonObject([proposed_categories |-> JsonList(CuratedTaxonomy)])),
      JsonFile(JsonObject([proposed_categories |-> JsonNumber])),
      JsonFile(JsonObject([foo |-> JsonNumber])),
      JsonFile(JsonList(Taxonomy)),
      JsonFile(JsonList(<<NoSession>>)) }

\* a complaint as scraped, without the key complaint_id
Unkeyed == [complaint_title |-> "t"]

\* complaint files of a phase-4 run: none, one and more than the threshold
\* of the batch mode, a complaint without id, and files that cannot be loaded
Phase4ComplaintFiles ==
    { Absent, Unreadable, Garbled,
      JsonFile(JsonNumber),
      JsonFile(JsonList(<<>>)),
      JsonFile(JsonList(ComplaintList(1))),
      JsonFile(JsonList(<<Unkeyed>>)),
      JsonFile(JsonList(ComplaintList(BatchThreshold + 1))),
      JsonFile(JsonList([ComplaintList(BatchThreshold + 1)
                            EXCEPT ![BatchSize + 1] = Unkeyed])) }

\* the usage log of a phase-4 run
Phase4LogFiles ==
    { Absent,
      JsonFile(JsonObject([sessions |-> JsonList(<<OldSession>>),
                           last_updated |-> 0])),
      JsonFile(JsonObject([sessions |-> JsonNumber, last_updated |-> 0])) }

\* the local variables of run_phase4 before their assignment
NoFrame ==
    [taxonomy |-> None, complaints |-> None, results |-> None, summary |-> None]

InitPhase4 ==
    /\ complaints = <<>>
    /\ use_batch = TRUE
    /\ taxonomy = None
    /\ pc = "phase4"
    /\ i = 0
    /\ results = <<>>
    /\ returned = None
    /\ tracker \in BOOLEAN
    /\ current_session = None
    /\ requests = <<>>
    /\ faults = 0
    /\ summary_in = <<>>
    /\ summary = None
    /\ sessions = JsonList(<<>>)
    /\ log_file \in Phase4LogFiles
    /\ shared = FALSE
    /\ op = "none"
    /\ ret = None
    /\ raised = FALSE
    /\ now = 1
    /\ replaced = {}
    /\ taxonomy_file \in Phase4TaxonomyFiles
    /\ error = None
    /\ argv = <<>>
    /\ plan = <<>>
    /\ events = <<>>
    /\ complaints_file \in Phase4ComplaintFiles
    /\ results_file = Absent
    /\ api_key \in BOOLEAN
    /\ frame = NoFrame
    /\ FleetUnused

\* run_phase4 up to start_session: the three checks that return early, the
\* classifier with its tracker, and the session of the phase
Phase4Begin ==
    /\ pc = "phase4"
    /\ IF taxonomy_file.kind = "absent" \/ complaints_file.kind = "absent"
          \/ ~api_key
       THEN /\ pc' = "returned"
            /\ UNCHANGED <<sessions, current_session, now>>
       ELSE /\ pc' = "load_taxonomy"
            /\ IF tracker
               THEN /\ sessions' = load_history(log_file)
                    /\ current_session' =
                          start_session("Phase 4 - Classification",
                                        "gpt-4o-mini", now)
                    /\ now' = now + 1
               ELSE UNCHANGED <<sessions, current_session, now>>
    /\ op' = "run_phase4"
    /\ UNCHANGED <<complaints, use_batch, taxonomy, i, results, returned,
                   tracker, requests, faults, summary_in, summary>>
    /\ UNCHANGED <<log_file, shared, ret, raised, replaced>>
    /\ UNCHANGED frontVars
    /\ UNCHANGED <<phaseVars, fleetVars>>

\* taxonomy = classifier.load_taxonomy(...), len(taxonomy), and the loop
\* that prints cat['category_name']
Phase4LoadTaxonomy ==
    /\ pc = "load_taxonomy"
    /\ LET r == load_taxonomy(taxonomy_file)
           err == IF r.error # None THEN r.error
                  ELSE IF ~Get(r.ret).list THEN Some(TypeError)
                  ELSE IF \E k \in 1..Len(Get(r.ret).items) :
                             "category_name" \notin DOMAIN Get(r.ret).items[k]
                  THEN Some(KeyError)
                  ELSE None
       IN  /\ error' = err
           /\ raised' = (err # None)
           /\ pc' = IF err # None THEN "raised" ELSE "load_complaints"
           /\ frame' = IF r.error # None THEN frame
                       ELSE [frame EXCEPT !.taxonomy = r.ret]
    /\ op' = "load_taxonomy"
    /\ UNCHANGED <<complaints, use_batch, taxonomy, i, results, returned,
                   tracker, current_session, requests, faults, summary_in,
                   summary>>
    /\ UNCHANGED <<sessions, log_file, shared, ret, now, replaced>>
    /\ UNCHANGED <<taxonomy_file, argv, plan, events>>
    /\ UNCHANGED <<complaints_file, results_file, api_key>>
    /\ UNCHANGED fleetVars

\* complaints = classifier.load_complaints(...) and len(complaints)
Phase4LoadComplaints ==
    /\ pc = "load_complaints"
    /\ LET r == load_complaints(complaints_file)
           err == IF r.error # None THEN r.error
                  ELSE IF ~Get(r.ret).list THEN Some(TypeError)
                  ELSE None
       IN  /\ error' = err
           /\ raised' = (err # None)
           /\ pc' = IF err # None THEN "raised" ELSE "classify"
           /\ frame' = IF r.error # None THEN frame
                       ELSE [frame EXCEPT !.complaints = r.ret]
    /\ op' = "load_complaints"
    /\ UNCHANGED <<complaints, use_batch, taxonomy, i, results, returned,
                   tracker, current_session, requests, faults, summary_in,
                   summary>>
    /\ UNCHANGED <<sessions, log_file, shared, ret, now, replaced>>
    /\ UNCHANGED <<taxonomy_file, argv, plan, events>>
    /\ UNCHANGED <<complaints_file, results_file, api_key>>
    /\ UNCHANGED fleetVars

\* results = classifier.classify_all(complaints, taxonomy, use_batch=True)
Phase4Classify ==
    /\ pc = "classify"
    /\ LET list == Get(frame.complaints).items
           tax == Get(frame.taxonomy).items
       IN  \E resps \in ReplySequences(list, use_batch) :
             LET r == classify_all(list, tax, use_batch, tracker,
                                   current_session, resps)
             IN  /\ current_session' = r.session
                 /\ taxonomy' = Some(tax)
                 /\ raised' = r.raised
                 /\ error' = IF r.raised THEN Some(KeyError) ELSE None
                 /\ pc' = IF r.raised THEN "raised" ELSE "write"
                 /\ frame' = IF r.raised THEN frame
                             ELSE [frame EXCEPT !.results = Some(r.out)]
    /\ op' = "classify_all"
    /\ UNCHANGED <<complaints, use_batch, i, results, returned, tracker,
                   requests, faults, summary_in, summary>>
    /\ UNCHANGED <<sessions, log_file, shared, ret, now, replaced>>
    /\ UNCHANGED <<taxonomy_file, argv, plan, events>>
    /\ UNCHANGED <<complaints_file, results_file, api_key>>
    /\ UNCHANGED fleetVars

\* the results file after `with open(..., "w")` and json.dump
write_results(output_data, file, disk) ==
    IF disk = "ok" THEN JsonFile(JsonObject(output_data))
    ELSE IF disk = "denied" THEN file
    ELSE Garbled

\* summary = classifier.generate_summary(results) (the division by total is
\* evaluated per counted category, so it never raises), output_data, and
\* the write of the results file
Phase4Write ==
    /\ pc = "write"
    /\ \E s \in {generate_summary(Get(frame.results))} :
       \E disk \in DiskOutcomes :
          /\ frame' = [frame EXCEPT !.summary = s]
          /\ results_file' =
                write_results([taxonomy_used |-> Get(frame.taxonomy),
                               classification_results |->
                                   JsonList(Get(frame.results)),
                               summary |-> Get(s)],
                              results_file, disk)
          /\ raised' = (disk # "ok")
          /\ error' = IF disk # "ok" THEN Some(OSError) ELSE None
          /\ pc' = IF disk # "ok" THEN "raised" ELSE "report"
    /\ op' = "write_results"
    /\ UNCHANGED <<complaints, use_batch, taxonomy, i, results, returned,
                   tracker, current_session, requests, faults, summary_in,
                   summary>>
    /\ UNCHANGED <<sessions, log_file, shared, ret, now, replaced>>
    /\ UNCHANGED <<taxonomy_file, argv, plan, events>>
    /\ UNCHANGED <<complaints_file, api_key>>
    /\ UNCHANGED fleetVars

\* the end of run_phase4: both branches of the report call end_session
Phase4End ==
    /\ pc = "report"
    /\ IF tracker
       THEN \E disk \in DiskOutcomes :
            \E cost \in IF CanFinalize(current_session)
                        THEN EstimatedCosts(Get(current_session)) ELSE {0} :
              LET r == end_session(current_session, sessions, log_file, shared,
                                   now, cost, disk)
              IN  /\ current_session' = r.current_session
                  /\ sessions' = r.sessions
                  /\ log_file' = r.log_file
                  /\ shared' = r.shared
                  /\ ret' = r.ret
                  /\ raised' = r.raised
                  /\ error' = IF ~r.raised THEN None
                              ELSE IF sessions.list THEN Some(OSError)
                              ELSE Some(AttributeError)
                  /\ pc' = IF r.raised THEN "raised" ELSE "returned"
                  /\ now' = IF CanFinalize(current_session) THEN now + 1 ELSE now
       ELSE /\ pc' = "returned"
            /\ UNCHANGED <<current_session, sessions, log_file, shared, ret,
                           raised, error, now>>
    /\ op' = "end_session"
    /\ UNCHANGED <<complaints, use_batch, taxonomy, i, results, returned,
                   tracker, requests, faults, summary_in, summary>>
    /\ UNCHANGED replaced
    /\ UNCHANGED <<taxonomy_file, argv, plan, events>>
    /\ UNCHANGED <<phaseVars, fleetVars>>

NextPhase4 ==
    \/ Phase4Begin
    \/ Phase4LoadTaxonomy
    \/ Phase4LoadComplaints
    \/ Phase4Classify
    \/ Phase4Write
    \/ Phase4End

SpecPhase4 == InitPhase4 /\ [][NextPhase4]_vars

-----------------------------------------------------------------------------
(* Several trackers over one log file: every phase run constructs its own   *)
(* OpenAIUsageTracker over config.API_USAGE_LOG_FILE, and two runs of       *)
(* main.py may be alive at the same time.  A tracker reads the file when it *)
(* is constructed and rewrites it from its own history in end_session.      *)

\* the phase runs that construct a tracker
Runs == {"run_phase2", "run_phase4"}

\* the phase a run names in start_session
PhaseOf(run) ==
    IF run = "run_phase2" THEN "Phase 2 - Theme Discovery"
    ELSE "Phase 4 - Classification"

\* the usage log before the runs: none yet, or the log of an earlier run
FleetLogFiles ==
    { Absent,
      JsonFile(JsonObject([sessions |-> JsonList(<<OldSession>>),
                           last_updated |-> 0])) }

\* a run that has not constructed its tracker yet
NoLedger ==
    [pc |-> "new", sessions |-> JsonList(<<>>), current_session |-> None,
     shared |-> FALSE]

InitFleet ==
    /\ ClassifierUnused
    /\ pc = "fleet"
    /\ current_session = None
    /\ sessions = JsonList(<<>>)
    /\ log_file \in FleetLogFiles
    /\ shared = FALSE
    /\ op = "none"
    /\ ret = None
    /\ raised = FALSE
    /\ now = 1
    /\ replaced = {}
    /\ FrontUnused
    /\ PhaseUnused
    /\ ledgers = [run \in Runs |-> NoLedger]
    /\ written = <<>>

\* the sessions the runs started, by their start_datetime
FleetStarted ==
    { t \in replaced
            \cup UNION { StartsListed(ledgers[run].sessions) : run \in Runs }
            \cup UNION { IF ledgers[run].current_session = None THEN {}
                         ELSE {Get(ledgers[run].current_session).start_datetime}
                         : run \in Runs } :
        t >= 1 }

\* the calls one tracker holds, in its history and its open session
CallsOfLedger(ledger) ==
    CallsIn(ledger.sessions.items)
    + (IF ledger.current_session # None /\ ~ledger.shared
       THEN Len(Get(ledger.current_session).calls) ELSE 0)

\* OpenAIUsageTracker(config.API_USAGE_LOG_FILE) in the constructor of a run
FleetConstruct ==
    /\ pc = "fleet"
    /\ \E run \in Runs :
          /\ ledgers[run].pc = "new"
          /\ ledgers' = [ledgers EXCEPT
                            ![run] = [pc |-> "ledger",
                                      sessions |-> load_history(log_file),
                                      current_session |-> None,
                                      shared |-> FALSE]]
    /\ op' = "construct"
    /\ ret' = None
    /\ raised' = FALSE
    /\ UNCHANGED <<complaints, use_batch, taxonomy, pc, i, results, returned,
                   tracker, current_session, requests, faults, summary_in,
                   summary>>
    /\ UNCHANGED <<sessions, log_file, shared, now, replaced>>
    /\ UNCHANGED frontVars
    /\ UNCHANGED phaseVars
    /\ UNCHANGED written

\* tracker.start_session(phase, model) of a run
FleetStartSession ==
    /\ pc = "fleet"
    /\ Cardinality(FleetStarted) < MaxSessions
    /\ \E run \in Runs :
          /\ ledgers[run].pc = "ledger"
          /\ ledgers' = [ledgers EXCEPT
                            ![run].current_session =
                                start_session(PhaseOf(run), "gpt-4o-mini", now),
                            ![run].shared = FALSE]
          /\ replaced' = IF ledgers[run].current_session = None THEN replaced
                         ELSE replaced
                              \cup {Get(ledgers[run].current_session).start_datetime}
    /\ now' = now + 1
    /\ op' = "start_session"
    /\ ret' = None
    /\ raised' = FALSE
    /\ UNCHANGED <<complaints, use_batch, taxonomy, pc, i, results, returned,
                   tracker, current_session, requests, faults, summary_in,
                   summary>>
    /\ UNCHANGED <<sessions, log_file, shared>>
    /\ UNCHANGED frontVars
    /\ UNCHANGED phaseVars
    /\ UNCHANGED written

\* tracker.log_call(...) of a run with a session open; the session it
\* updates is the last entry of the history too when both are one object
FleetLogCall ==
    /\ pc = "fleet"
    /\ \E run \in Runs :
          /\ ledgers[run].pc = "ledger"
          /\ ledgers[run].current_session # None
          /\ CallsOfLedger(ledgers[run]) < MaxCalls
          /\ \E tokens \in TokenCounts :
                LET ledger == ledgers[run]
                    session == log_call(ledger.current_session,
                                        tokens[1], tokens[2])
                IN  ledgers' = [ledgers EXCEPT
                       ![run].current_session = session,
                       ![run].sessions =
                           IF ledger.shared
                           THEN JsonList([ledger.sessions.items EXCEPT
                                             ![Len(ledger.sessions.items)] =
                                                 Get(session)])
                           ELSE ledger.sessions]
    /\ op' = "log_call"
    /\ ret' = None
    /\ raised' = FALSE
    /\ UNCHANGED <<complaints, use_batch, taxonomy, pc, i, results, returned,
                   tracker, current_session, requests, faults, summary_in,
                   summary>>
    /\ UNCHANGED <<sessions, log_file, shared, now, replaced>>
    /\ UNCHANGED frontVars
    /\ UNCHANGED phaseVars
    /\ UNCHANGED written

\* tracker.end_session() of a run: the file is rewritten from the history
\* of this tracker
FleetEndSession ==
    /\ pc = "fleet"
    /\ \E run \in Runs :
          /\ ledgers[run].pc = "ledger"
          /\ \E disk \in DiskOutcomes :
             \E cost \in IF CanFinalize(ledgers[run].current_session)
                         THEN EstimatedCosts(Get(ledgers[run].current_session))
                         ELSE {0} :
                LET ledger == ledgers[run]
                    r == end_session(ledger.current_session, ledger.sessions,
                                     log_file, ledger.shared, now, cost, disk)
                IN  /\ ledgers' = [ledgers EXCEPT
                          ![run] = [pc |-> "ledger",
                                    sessions |-> r.sessions,
                                    current_session |-> r.current_session,
                                    shared |-> r.shared]]
                    /\ log_file' = r.log_file
                    /\ ret' = r.ret
                    /\ raised' = r.raised
                    /\ written' = IF r.ret = None THEN written
                                  ELSE Append(written, Get(r.ret))
          /\ now' = IF CanFinalize(ledgers[run].current_session)
                    THEN now + 1 ELSE now
    /\ op' = "end_session"
    /\ UNCHANGED <<complaints, use_batch, taxonomy, pc, i, results, returned,
                   tracker, current_session, requests, faults, summary_in,
                   summary>>
    /\ UNCHANGED <<sessions, shared, replaced>>
    /\ UNCHANGED frontVars
    /\ UNCHANGED phaseVars

NextFleet ==
    \/ FleetConstruct
    \/ FleetStartSession
    \/ FleetLogCall
    \/ FleetEndSession

SpecFleet == InitFleet /\ [][NextFleet]_vars

-----------------------------------------------------------------------------
(* Properties.  Helpers first. *)

HasId(e) == "complaint_id" \in DOMAIN e

HasCategory(e) == "assigned_category" \in DOMAIN e

\* number of entries of out that carry the complaint id
CountId(out, id) ==
    Cardinality({k \in 1..Len(out) : HasId(out[k]) /\ out[k].complaint_id = id})

\* the part of results that the iteration of request k appended
Slice(k) ==
    SubSeq(results, requests[k].before + 1,
           IF k < Len(requests) THEN requests[k + 1].before ELSE Len(results))

\* the complaints that request k carried
BatchOf(k) == [j \in 1..Len(requests[k].ids) |-> Complaint(requests[k].ids[j])]

BatchRequests == {k \in 1..Len(requests) : requests[k].template = "batch"}

SingleRequests == {k \in 1..Len(requests) : requests[k].template = "single"}

\* C1: classify_all returns exactly one assignment per input complaint: the
\* result is as long as the input and carries every input complaint id
\* exactly once, whatever the mode and whatever the LLM answered.
C1_OneAssignmentPerComplaint ==
    returned # None =>
        LET out == Get(returned)
        IN  /\ Len(out) = Len(complaints)
            /\ \A k \in 1..Len(out) : HasId(out[k])
            /\ \A c \in 1..Len(complaints) :
                   CountId(out, complaints[c].complaint_id) = 1

\* C2: every assignment classify_all returns carries a category name of the
\* taxonomy passed to the call, or OTHER, or ERROR.
C2_CategoryFromTaxonomyOrSentinel ==
    returned # None =>
        \A k \in 1..Len(Get(returned)) :
            /\ HasCategory(Get(returned)[k])
            /\ Get(returned)[k].assigned_category
                   \in CategoryNames(Get(taxonomy)) \cup {"OTHER", "ERROR"}

\* a batch run has returned a list in which the LLM's unknown category was
\* replaced by OTHER, next to categories of the taxonomy
C2_Witness ==
    /\ returned # None
    /\ \E k \in BatchRequests :
          /\ ~requests[k].resp.raised
          /\ requests[k].resp.content # None
          /\ \E t \in 1..Len(Get(requests[k].resp.content)) :
                LET tok == Get(requests[k].resp.content)[t]
                IN  /\ tok.t = "json"
                    /\ tok.v.list
                    /\ \E e \in 1..Len(tok.v.items) :
                          /\ HasCategory(tok.v.items[e])
                          /\ tok.v.items[e].assigned_category = "Inexistente"
          /\ \E j \in 1..Len(Slice(k)) : Slice(k)[j].assigned_category = "OTHER"
          /\ \E j \in 1..Len(Slice(k)) : Slice(k)[j].assigned_category = "Motor"

\* the call for the chunk raised, or its response text is no JSON document
ChunkCallFailed(resp) ==
    \/ resp.raised
    \/ resp.content = None
    \/ json_loads(RemoveFences(Get(resp.content))) = None

RECURSIVE RequestedIds(_)
RequestedIds(reqs) ==
    IF reqs = <<>> THEN <<>>
    ELSE RequestedIds(SubSeq(reqs, 1, Len(reqs) - 1)) \o reqs[Len(reqs)].ids

\* C3: in batch mode a chunk whose call raised or whose response text is no
\* JSON gives one ERROR assignment per complaint of the chunk, keyed to the
\* complaint and in the place of the chunk; what earlier chunks appended is
\* never changed, and at the end of the run every chunk was requested.
C3_FailedChunkAllError ==
    /\ [](\A k \in BatchRequests :
            ChunkCallFailed(requests[k].resp) =>
                /\ Len(Slice(k)) = Len(requests[k].ids)
                /\ \A j \in 1..Len(Slice(k)) :
                      Slice(k)[j] = [complaint_id |-> requests[k].ids[j],
                                     assigned_category |-> "ERROR"])
    /\ []((pc = "done" /\ BatchRequests # {}) =>
            RequestedIds(requests) = Ids(complaints))
    /\ [][pc = "batch" =>
            /\ Len(results') >= Len(results)
            /\ SubSeq(results', 1, Len(results)) = results]_vars

\* the second of three chunks got a text that is no JSON: its ten complaints
\* are ERROR, the chunks before and after it kept their categories
C3_Witness ==
    /\ pc = "done"
    /\ Len(requests) = 3
    /\ BatchRequests = {1, 2, 3}
    /\ ~requests[2].resp.raised
    /\ ChunkCallFailed(requests[2].resp)
    /\ \A j \in 1..Len(Slice(2)) : Slice(2)[j].assigned_category = "ERROR"
    /\ Len(Slice(2)) = BatchSize
    /\ \A j \in 1..Len(Slice(1)) : Slice(1)[j].assigned_category # "ERROR"
    /\ \A j \in 1..Len(Slice(3)) : Slice(3)[j].assigned_category # "ERROR"

\* the call for one complaint raised, or its response carries no text
SingleCallFailed(resp) == resp.raised \/ resp.content = None

\* C4: in single mode a failed call gives ERROR to its own complaint and to
\* no other; every iteration appends one assignment for its complaint and
\* leaves the earlier ones alone; at the end of the run classify_all has
\* returned and every complaint was sent to the LLM, in order.
C4_SingleFailureIsolated ==
    /\ [](\A k \in SingleRequests :
            /\ Len(Slice(k)) = 1
            /\ Slice(k)[1].complaint_id = requests[k].ids[1]
            /\ (Slice(k)[1].assigned_category = "ERROR"
                    <=> SingleCallFailed(requests[k].resp)))
    /\ []((pc = "done" /\ BatchRequests = {}) =>
            /\ returned # None
            /\ Len(requests) = Len(complaints)
            /\ \A k \in 1..Len(requests) :
                  requests[k].ids = <<complaints[k].complaint_id>>)
    /\ [][pc = "single" =>
            /\ Len(results') >= Len(results)
            /\ SubSeq(results', 1, Len(results)) = results]_vars

\* a call in the middle of a single-mode run failed: its complaint is ERROR,
\* the complaints before and after it got a category of the taxonomy
C4_Witness ==
    /\ pc = "done"
    /\ \E k \in SingleRequests :
          /\ k > 1
          /\ k < Len(requests)
          /\ SingleCallFailed(requests[k].resp)
          /\ Slice(k)[1].assigned_category = "ERROR"
          /\ Slice(k - 1)[1].assigned_category \in CategoryNames(Taxonomy)
          /\ Slice(k + 1)[1].assigned_category \in CategoryNames(Taxonomy)

\* the call returned a response with a text and a usage record
Succeeded(request) ==
    /\ ~request.resp.raised
    /\ request.resp.content # None
    /\ request.resp.usage # None

\* C5: with a session open during the run, at the end of classify_all the
\* session holds one call entry per LLM call that returned successfully, in
\* order, with the token counts of that call.
C5_EverySuccessfulCallLogged ==
    (pc = "done" /\ current_session # None) =>
        LET calls == Get(current_session).calls
            ok == SelectSeq(requests, Succeeded)
        IN  /\ Len(calls) = Len(ok)
            /\ \A j \in 1..Len(calls) :
                  /\ calls[j].input_tokens = Get(ok[j].resp.usage).prompt_tokens
                  /\ calls[j].output_tokens = Get(ok[j].resp.usage).completion_tokens

\* C6: the assignments of a chunk depend on the response text alone: they
\* are what the same response gives when usage reporting is disabled.
C6_ReportingNeverChangesAssignments ==
    \A k \in BatchRequests :
        ~requests[k].resp.raised =>
            Slice(k) = classify_chunk(BatchOf(k), Get(taxonomy), FALSE, None,
                                      requests[k].resp).out

\* C7: the requests of a run are grouped requests if and only if batch mode
\* was asked for and there are more than 20 complaints; in every other case
\* the run issues exactly one request per complaint.
C7_BatchOnlyAboveThreshold ==
    LET grouped == use_batch /\ Len(complaints) > 20
    IN  /\ \A k \in 1..Len(requests) :
              requests[k].template = IF grouped THEN "batch" ELSE "single"
        /\ (pc = "done" /\ ~grouped) =>
              /\ Len(requests) = Len(complaints)
              /\ \A k \in 1..Len(requests) :
                    requests[k].ids = <<complaints[k].complaint_id>>
        /\ (pc = "done" /\ grouped) =>
              /\ requests # <<>>
              /\ Len(requests) < Len(complaints)

\* batch mode was asked for with exactly 20 complaints: 20 single requests
C7_Witness ==
    /\ pc = "done"
    /\ use_batch
    /\ Len(complaints) = 20
    /\ Len(requests) = 20
    /\ SingleRequests = 1..20

\* the single-mode calls that returned a text
TextRequests ==
    {k \in SingleRequests :
        ~requests[k].resp.raised /\ requests[k].resp.content # None}

TextOf(k) == Get(requests[k].resp.content)

\* the category name a text is verbatim, OTHER when it is none
NamedCategory(text) ==
    IF \E name \in CategoryNames(Get(taxonomy)) : text = <<Word(name)>>
    THEN text[1].s
    ELSE "OTHER"

IsFenced(text) ==
    /\ Len(strip(text)) >= 2
    /\ Head(strip(text)) \in {Fence, FenceJson}
    /\ strip(text)[Len(strip(text))] = Fence

\* C8 as stated: in single mode the category is the response text without
\* its surrounding code fences and whitespace, compared verbatim with the
\* category names (OTHER when it matches none).
C8_FencesAndWhitespaceStripped ==
    \A k \in TextRequests :
        Slice(k)[1].assigned_category = NamedCategory(RemoveFences(TextOf(k)))

\* C8 amended: in single mode the category is the response text without its
\* surrounding whitespace only, compared verbatim with the category names
\* (OTHER when it matches none); a text wrapped in code fences is OTHER.
C8_OnlyWhitespaceStripped ==
    \A k \in TextRequests :
        /\ Slice(k)[1].assigned_category = NamedCategory(strip(TextOf(k)))
        /\ IsFenced(TextOf(k)) => Slice(k)[1].assigned_category = "OTHER"

\* a single-mode call answered a category name of the taxonomy inside code
\* fences and the complaint was assigned OTHER
C8_Witness ==
    \E k \in TextRequests :
        /\ IsFenced(TextOf(k))
        /\ RemoveFences(TextOf(k)) = <<Word("Motor")>>
        /\ Slice(k)[1].assigned_category = "OTHER"

\* the chunk calls whose response was parsed into a JSON array
ParsedRequests ==
    {k \in BatchRequests :
        /\ ~requests[k].resp.raised
        /\ ~(tracker /\ requests[k].resp.usage = None)
        /\ requests[k].resp.content # None
        /\ json_loads(RemoveFences(Get(requests[k].resp.content))) # None
        /\ Get(json_loads(RemoveFences(Get(requests[k].resp.content)))).list}

EntriesOf(k) ==
    Get(json_loads(RemoveFences(Get(requests[k].resp.content)))).items

\* C9: when the response of a chunk parses (into entries that carry an
\* assigned_category), every entry is kept, in order: one whose category is
\* a taxonomy name or OTHER as it is, any other with its category rewritten
\* to OTHER.
C9_EveryEntryKept ==
    \A k \in ParsedRequests :
        (\A j \in 1..Len(EntriesOf(k)) : HasCategory(EntriesOf(k)[j])) =>
            /\ Len(Slice(k)) = Len(EntriesOf(k))
            /\ \A j \in 1..Len(Slice(k)) :
                  Slice(k)[j] =
                      IF EntriesOf(k)[j].assigned_category
                             \in CategoryNames(Get(taxonomy)) \cup {"OTHER"}
                      THEN EntriesOf(k)[j]
                      ELSE [EntriesOf(k)[j] EXCEPT !.assigned_category = "OTHER"]

RECURSIVE SumCounts(_)
SumCounts(dist) ==
    IF dist = <<>> THEN 0 ELSE Head(dist).count + SumCounts(Tail(dist))

\* C10: generate_summary returns, for every list of assignments, a total
\* equal to the length of the list and to the sum of the counts of the
\* distribution; for the empty list the total is 0 and the distribution is
\* empty.
C10_TotalIsLengthAndSumOfCounts ==
    pc = "summarized" =>
          /\ summary # None
          /\ Get(summary).total_complaints = Len(summary_in)
          /\ Get(summary).total_complaints
                 = SumCounts(Get(summary).category_distribution)
          /\ summary_in = <<>> =>
                /\ Get(summary).total_complaints = 0
                /\ Get(summary).category_distribution = <<>>

\* generate_summary has returned for the empty list
C10_Witness ==
    /\ pc = "summarized"
    /\ summary # None
    /\ summary_in = <<>>
    /\ Get(summary) = [total_complaints |-> 0, category_distribution |-> <<>>]

\* number of assignments of the list that carry the label
Occurrences(res, label) ==
    Cardinality({k \in 1..Len(res) : res[k].assigned_category = label})

\* position of the first assignment of the list that carries the label
FirstOccurrence(res, label) ==
    CHOOSE k \in 1..Len(res) :
        /\ res[k].assigned_category = label
        /\ \A j \in 1..(k - 1) : res[j].assigned_category # label

\* pct hundredths of a percent is count / total x 100 rounded to 2 decimals
IsRoundedPercentage(pct, count, total) ==
    /\ 2 * (pct * total - count * 100 * 100) <= total
    /\ 2 * (count * 100 * 100 - pct * total) <= total

\* C11: the distribution has exactly one entry per distinct label of the
\* input (OTHER and ERROR included), with a count greater than 0 equal to the
\* label's number of occurrences and the percentage count / total x 100
\* rounded to 2 decimals; counts never increase along the distribution and
\* entries of equal count are in the order of first occurrence of their labels.
C11_DistributionPerLabelSorted ==
    (pc = "summarized" /\ summary # None) =>
        LET dist == Get(summary).category_distribution
            total == Len(summary_in)
        IN  /\ {dist[k].category : k \in 1..Len(dist)}
                   = {summary_in[k].assigned_category : k \in 1..Len(summary_in)}
            /\ \A j, k \in 1..Len(dist) :
                   dist[j].category = dist[k].category => j = k
            /\ \A k \in 1..Len(dist) :
                   /\ dist[k].count > 0
                   /\ dist[k].count = Occurrences(summary_in, dist[k].category)
                   /\ IsRoundedPercentage(dist[k].percentage, dist[k].count, total)
            /\ \A k \in 1..(Len(dist) - 1) :
                   /\ dist[k].count >= dist[k + 1].count
                   /\ dist[k].count = dist[k + 1].count =>
                          FirstOccurrence(summary_in, dist[k].category)
                              < FirstOccurrence(summary_in, dist[k + 1].category)

\* the summary of [ERROR, Motor, Motor, OTHER]: Motor first with 2 and 50.00,
\* then ERROR and OTHER, of equal count, in the order they first occur
C11_Witness ==
    /\ pc = "summarized"
    /\ summary # None
    /\ [k \in 1..Len(summary_in) |-> summary_in[k].assigned_category]
           = <<"ERROR", "Motor", "Motor", "OTHER">>
    /\ Get(summary).category_distribution
           = << [category |-> "Motor", count |-> 2, percentage |-> 5000],
                [category |-> "ERROR", count |-> 1, percentage |-> 2500],
                [category |-> "OTHER", count |-> 1, percentage |-> 2500] >>

\* the session an end_session step finalized: the one it returned, or the
\* one it left open when it raised
FinalizedBy(current, returnedSession) ==
    IF returnedSession # None THEN Get(returnedSession) ELSE Get(current)

\* the prices the claim names for a model: those of the table, and 0.150
\* and 0.600 USD (3 and 12 units) for a model the table does not list
ClaimedPrice(model) ==
    IF model \in DOMAIN PRICING /\ model # "gpt-4o-mini"
    THEN PRICING[model]
    ELSE [input |-> 3, output |-> 12]

\* cost (in 0.0001 USD) is the exact cost rounded to 4 decimals
IsRoundedCost(cost, input_tokens, output_tokens, price) ==
    LET exact == input_tokens * price.input + output_tokens * price.output
    IN  /\ 2 * (cost * CostDivisor - exact) <= CostDivisor
        /\ 2 * (exact - cost * CostDivisor) <= CostDivisor

\* C12: end_session sets estimated_cost_usd to the session's input tokens
\* per million times the input price plus its output tokens per million
\* times the output price, rounded to 4 decimals, with the prices of the
\* session's model and those of gpt-4o-mini for a model the table does not
\* list; 1,000,000 input and 500,000 output tokens on gpt-4o-mini cost 0.45.
C12_CostFromPriceTable ==
    [][(op' = "end_session" /\ CanFinalize(current_session)) =>
          LET s == Get(current_session)
              f == FinalizedBy(current_session', ret')
          IN  /\ IsRoundedCost(f.estimated_cost_usd, s.total_input_tokens,
                               s.total_output_tokens, ClaimedPrice(s.model))
              /\ (/\ s.model = "gpt-4o-mini"
                  /\ s.total_input_tokens = 1000000
                  /\ s.total_output_tokens = 500000)
                     => f.estimated_cost_usd = 4500]_vars

\* end_session returned a gpt-4o-mini session with the one call of 1,000,000
\* input and 500,000 output tokens, priced 0.45 USD
C12_Witness ==
    /\ op = "end_session"
    /\ ret # None
    /\ Get(ret).model = "gpt-4o-mini"
    /\ Len(Get(ret).calls) = 1
    /\ Get(ret).calls[1].input_tokens = 1000000
    /\ Get(ret).calls[1].output_tokens = 500000
    /\ Get(ret).estimated_cost_usd = 4500

\* C13: log_call with no session open does not raise and changes nothing:
\* no session becomes open, the history and the log file stay as they are;
\* and a session started later begins with no calls and zero totals.
C13_LogCallWithoutSessionIsNoOp ==
    [][/\ (op' = "log_call" /\ current_session = None) =>
              /\ ~raised'
              /\ current_session' = None
              /\ sessions' = sessions
              /\ log_file' = log_file
       /\ op' = "start_session" =>
              /\ Get(current_session').calls = <<>>
              /\ Get(current_session').total_input_tokens = 0
              /\ Get(current_session').total_output_tokens = 0
              /\ Get(current_session').total_tokens = 0]_vars

\* log_call was called after end_session closed a session of this ledger:
\* nothing is open and the history holds the closed session
C13_Witness ==
    /\ op = "log_call"
    /\ current_session = None
    /\ ~raised
    /\ sessions.list
    /\ sessions.items # <<>>
    /\ "start_datetime" \in DOMAIN sessions.items[Len(sessions.items)]
    /\ sessions.items[Len(sessions.items)].start_datetime >= 1
    /\ log_file = JsonFile(JsonObject([sessions |-> sessions,
                                       last_updated |-> now - 1]))

\* C14: end_session with a session open appends that session, finalized, as
\* the last entry of the history and changes no earlier entry, leaves no
\* session open, rewrites the log file so that its sessions are the history,
\* and returns the finalized session, which has no start_time; with no
\* session open it returns nothing and changes neither history nor file.
C14_EndSessionAppendsAndPersists ==
    [][op' = "end_session" =>
          IF current_session # None
          THEN /\ ~raised'
               /\ ret' # None
               /\ "start_time" \notin DOMAIN Get(ret')
               /\ Get(ret').calls = Get(current_session).calls
               /\ sessions.list
               /\ sessions' = JsonList(Append(sessions.items, Get(ret')))
               /\ current_session' = None
               /\ log_file'.kind = "json"
               /\ IsObject(log_file'.v)
               /\ log_file'.v.fields.sessions = sessions'
          ELSE /\ ~raised'
               /\ ret' = None
               /\ sessions' = sessions
               /\ log_file' = log_file]_vars

\* the start_datetime of the sessions the log file holds
StartsPersisted ==
    IF log_file.kind = "json" /\ IsObject(log_file.v)
       /\ "sessions" \in DOMAIN log_file.v.fields
    THEN StartsListed(log_file.v.fields.sessions)
    ELSE {}

\* C15: start_session with a session open replaces it without error by a
\* session with no calls and zero totals; log_call adds its call to the
\* session that is open; and a replaced session is never in the history nor
\* in the log file.
C15_ReplacedSessionNeverRecorded ==
    /\ [](replaced \cap (StartsListed(sessions) \cup StartsPersisted) = {})
    /\ [][/\ op' = "start_session" =>
                 /\ ~raised'
                 /\ Get(current_session').calls = <<>>
                 /\ Get(current_session').total_tokens = 0
          /\ (op' = "log_call" /\ current_session # None) =>
                 /\ current_session' # None
                 /\ Get(current_session').start_datetime
                        = Get(current_session).start_datetime
                 /\ Len(Get(current_session').calls)
                        = Len(Get(current_session).calls) + 1]_vars

\* a log file the ledger wrote: an object whose sessions are sessions
WellFormedLog(file) ==
    /\ file.kind = "json"
    /\ IsObject(file.v)
    /\ "sessions" \in DOMAIN file.v.fields
    /\ file.v.fields.sessions.list
    /\ \A k \in 1..Len(file.v.fields.sessions.items) :
          IsSessionEntry(file.v.fields.sessions.items[k])

\* C16: no ledger operation raises to its caller, whatever the state of the
\* log file and of the disk, and construction over a log file that is
\* missing, unreadable, no JSON or JSON of another shape gives the empty
\* history.
C16_LedgerNeverRaises ==
    /\ ~raised
    /\ (op = "construct" /\ ~WellFormedLog(log_file)) => sessions = JsonList(<<>>)

\* C17: get_total_usage leaves the history, the open session and the log
\* file as they are, and called twice in a row it returns the same.
C17_TotalUsageIsPureRead ==
    [][op' = "get_total_usage" =>
          /\ sessions' = sessions
          /\ current_session' = current_session
          /\ log_file' = log_file
          /\ shared' = shared
          /\ op = "get_total_usage" => (ret' = ret /\ raised' = raised)]_vars

\* get_total_usage returned the totals of a history of two sessions while a
\* third session was open
C17_Witness ==
    /\ op = "get_total_usage"
    /\ ret # None
    /\ Get(ret).total_sessions = 2
    /\ Get(ret).total_tokens > 0
    /\ current_session # None
    /\ sessions.list
    /\ Len(sessions.items) = 2

\* C18: load_taxonomy returns the category sequence, in source order, of a
\* bare array and of an object holding the array under proposed_categories,
\* the same for both; for JSON of every other shape it raises the format
\* error and returns nothing.
C18_TwoShapesElseFormatError ==
    (pc = "loaded" /\ taxonomy_file.kind = "json") =>
        LET data == taxonomy_file.v
        IN  IF data.list
            THEN error = None /\ ret = Some(data)
            ELSE IF /\ IsObject(data)
                    /\ "proposed_categories" \in DOMAIN data.fields
                    /\ data.fields.proposed_categories.list
            THEN error = None /\ ret = Some(data.fields.proposed_categories)
            ELSE error = Some(ValueError) /\ ret = None

\* the phases started so far, in order
PhasesStarted ==
    LET starts == SelectSeq(events, LAMBDA ev : ev.e = "start")
    IN  [k \in 1..Len(starts) |-> starts[k].phase]

IsPrefix(short, long) ==
    /\ Len(short) <= Len(long)
    /\ \A k \in 1..Len(short) : short[k] = long[k]

\* before event k a confirmation was read after the phase had ended
ConfirmedAfter(phase, k) ==
    \E e, c \in 1..(k - 1) :
        /\ e < c
        /\ events[e] = Ended(phase, "returned")
        /\ events[c] = Input("enter")

\* C19: with the selector all, the phases are started in the order 1, 2, 4,
\* each at most once; phase 2 is started only after a confirmation read
\* after phase 1 ended, phase 4 only after a confirmation read after phase 2
\* ended; and when every phase returned and every confirmation was given,
\* all three phases have run.
C19_AllRunsPhasesInOrderWithPauses ==
    (argv # <<>> /\ Lower(argv[1]) = "all") =>
        /\ IsPrefix(PhasesStarted, <<"run_phase1", "run_phase2", "run_phase4">>)
        /\ \A k \in 1..Len(events) :
              /\ events[k] = Started("run_phase2") => ConfirmedAfter("run_phase1", k)
              /\ events[k] = Started("run_phase4") => ConfirmedAfter("run_phase2", k)
        /\ (/\ pc = "exit"
            /\ \A k \in 1..Len(events) :
                  events[k].e # "start" => events[k].outcome \in {"returned", "enter"})
               => PhasesStarted = <<"run_phase1", "run_phase2", "run_phase4">>

\* main ran with the selector all to its end, every phase returned and both
\* confirmations were given
C19_Witness ==
    /\ pc = "exit"
    /\ argv = <<"ALL">>
    /\ events = << Started("run_phase1"), Ended("run_phase1", "returned"),
                   Input("enter"),
                   Started("run_phase2"), Ended("run_phase2", "returned"),
                   Input("enter"),
                   Started("run_phase4"), Ended("run_phase4", "returned") >>

\* C20: in batch mode request k carries complaints 10(k-1)+1 .. 10k of the
\* input, in input order (the last chunk up to the end of the input); at
\* the end of the run there are ceil(n / 10) requests and their chunks,
\* one after the other, are the input, so every complaint is in exactly one
\* chunk; and when a request is issued the results hold the assignments of
\* every chunk before it, the chunk's results or its ERROR fallbacks.
C20_ChunksOfTenOneRequestEach ==
    LET n == Len(complaints)
    IN  /\ \A k \in BatchRequests :
              /\ requests[k].ids
                    = Ids(SubSeq(complaints, 10 * (k - 1) + 1, Min(10 * k, n)))
              /\ Slice(k) = classify_chunk(BatchOf(k), Get(taxonomy), tracker,
                                           None, requests[k].resp).out
              /\ k > 1 => requests[k].before
                              = requests[k - 1].before + Len(Slice(k - 1))
        /\ (pc = "done" /\ BatchRequests # {}) =>
              /\ Len(requests) = (n + 9) \div 10
              /\ RequestedIds(requests) = Ids(complaints)

\* a batch run over 21 complaints has ended: three requests for chunks of
\* 10, 10 and 1 complaints, the first of which failed and left 10 ERROR
\* fallbacks before the second was issued
C20_Witness ==
    /\ pc = "done"
    /\ Len(complaints) = 21
    /\ BatchRequests = {1, 2, 3}
    /\ Len(requests[1].ids) = 10
    /\ Len(requests[2].ids) = 10
    /\ requests[3].ids = <<21>>
    /\ requests[1].resp.raised
    /\ requests[2].before = 10
    /\ \A j \in 1..10 : results[j].assigned_category = "ERROR"

\* run_phase4 is over: it returned, or an exception left it
Phase4Over == pc \in {"returned", "raised"}

\* run_phase4 opened its session: start_session read the clock, which only
\* a run that tracks usage and passed the three checks does
Phase4Opened == tracker /\ now > 1

\* the log file lists a session this run started (the sessions of earlier
\* runs started before the clock of this run)
Phase4SessionPersisted == \E t \in StartsPersisted : t >= 1

\* C21: in a phase-4 run with usage tracking, the session opened at the
\* start of the phase is finalized by end_session and listed in the
\* persisted history on every way the phase can end after the session was
\* opened (a taxonomy that fails to load, a classification that aborts, a
\* results file that cannot be written included): whenever run_phase4 is
\* over and had opened its session, the log file lists that session.
C21_OpenedSessionPersistedAtEnd ==
    (Phase4Over /\ Phase4Opened) => Phase4SessionPersisted

\* the sum of a token count over the calls of a session
RECURSIVE SumCalls(_, _)
SumCalls(calls, field) ==
    IF calls = <<>> THEN 0
    ELSE Head(calls)[field] + SumCalls(Tail(calls), field)

\* the totals of a session are the sums over its calls
TotalsMatchCalls(session) ==
    /\ session.total_input_tokens = SumCalls(session.calls, "input_tokens")
    /\ session.total_output_tokens = SumCalls(session.calls, "output_tokens")
    /\ session.total_tokens
          = session.total_input_tokens + session.total_output_tokens

\* the entries of the history that this ledger appended (the sessions of
\* earlier runs started before the clock of this run)
AppendedEntries ==
    IF ~sessions.list THEN {}
    ELSE { k \in 1..Len(sessions.items) :
              /\ "start_datetime" \in DOMAIN sessions.items[k]
              /\ sessions.items[k].start_datetime >= 1 }

ListsChunkOnce(k) ==
    /\ Len(EntriesOf(k)) = Len(requests[k].ids)
    /\ \A j \in 1..Len(EntriesOf(k)) :
          HasId(EntriesOf(k)[j]) /\ HasCategory(EntriesOf(k)[j])
    /\ \A j \in 1..Len(requests[k].ids) :
          CountId(EntriesOf(k), requests[k].ids[j]) = 1

\* C23: the list classify_all returns is in input order in both modes: for
\* every position, the assignment there carries the complaint_id of the
\* input complaint there, whatever order the LLM lists the complaints of a
\* chunk in (every parsed response listing the complaints of its chunk once).
C23_ReturnedInInputOrder ==
    (returned # None /\ \A k \in ParsedRequests : ListsChunkOnce(k)) =>
        LET out == Get(returned)
        IN  /\ Len(out) = Len(complaints)
            /\ \A k \in 1..Len(out) :
                  /\ HasId(out[k])
                  /\ out[k].complaint_id = complaints[k].complaint_id

\* the sessions the log file lists
PersistedItems ==
    IF load_history(log_file).list THEN load_history(log_file).items ELSE <<>>

\* is `short` within `long`, entry for entry, in the same relative order
RECURSIVE IsSubsequence(_, _)
IsSubsequence(short, long) ==
    IF short = <<>> THEN TRUE
    ELSE IF long = <<>> THEN FALSE
    ELSE IF Head(short) = Head(long)
         THEN IsSubsequence(Tail(short), Tail(long))
         ELSE IsSubsequence(short, Tail(long))

\* C24: the persisted history only grows: for trackers constructed over the
\* same log file, possibly alive at the same time, and any interleaving of
\* their operations, every session an end_session wrote to the file is
\* still in the file, unchanged and in the same relative order, after every
\* later end_session (that returned).
C24_PersistedHistoryOnlyGrows ==
    (op = "end_session" /\ ~raised) => IsSubsequence(written, PersistedItems)

====
